---- MODULE Spec2Model ----
(***************************************************************************)
(* HRMS hr-operations-service: the leave, attendance and payroll services  *)
(* (LeaveService, AttendanceService, PayrollService) over their document   *)
(* collections, with the Mongoose pre('save') hooks and unique indexes.    *)
(*                                                                         *)
(* Conventions.  Dates are milliseconds (Date.getTime()) in the server's   *)
(* local time zone, taken without daylight-saving shifts.  An optional     *)
(* field that is undefined is NoNum (numbers, dates) or NoStr (strings).   *)
(* A collection is a function from document ids to documents.  Each        *)
(* service has its own specification; the variables of the other services  *)
(* stay unchanged in it.  The front end's authentication state (auth) is   *)
(* the state of the React reducer authReducer; a token is the number of    *)
(* the token string, NoNum for null.                                       *)
(***************************************************************************)
EXTENDS Integers, Sequences, FiniteSets, TLC

VARIABLES leaves, lres, payrolls, pres, attendance, ares, clock, calls, auth

vars == <<leaves, lres, payrolls, pres, attendance, ares, clock, calls, auth>>

NoNum == -999999999
NoStr == "none"

MsPerHour == 3600000
MsPerDay == 86400000

(* Math.ceil(a / b) for a >= 0, b > 0 *)
Ceil(a, b) == (a + b - 1) \div b

Abs(a) == IF a < 0 THEN -a ELSE a

Min(a, b) == IF a <= b THEN a ELSE b

Max(a, b) == IF a >= b THEN a ELSE b

(***************************************************************************)
(* The front end: AuthContext's reducer.                                   *)
(***************************************************************************)
MaxAuthUsers == 6

MaxTokens == 4

(* initialState, with token = localStorage.getItem('token') *)
initialState(token) ==
  [user |-> NoNum, token |-> token, isLoading |-> FALSE, isAuthenticated |-> FALSE]

(* the actions of type AuthAction; a payload user is the number of an      *)
(* AuthUser object                                                         *)
AuthActions ==
  {[type |-> t] : t \in {"AUTH_START", "AUTH_FAILURE", "LOGOUT"}}
    \cup {[type |-> "AUTH_SUCCESS", payload |-> [user |-> u, token |-> t]] :
            u \in 1..MaxAuthUsers, t \in 1..MaxTokens}
    \cup {[type |-> "UPDATE_USER", payload |-> u] : u \in 1..MaxAuthUsers}

authReducer_M(state, action) ==
  CASE action.type = "AUTH_START" -> [state EXCEPT !.isLoading = TRUE]
    [] action.type = "AUTH_SUCCESS" ->
         [state EXCEPT !.isLoading = FALSE, !.isAuthenticated = TRUE,
                       !.user = action.payload.user, !.token = action.payload.token]
    [] action.type = "AUTH_FAILURE" ->
         [state EXCEPT !.isLoading = FALSE, !.isAuthenticated = FALSE,
                       !.user = NoNum, !.token = NoNum]
    [] action.type = "LOGOUT" ->
         [state EXCEPT !.user = NoNum, !.token = NoNum]
    [] action.type = "UPDATE_USER" -> [state EXCEPT !.user = action.payload]
    [] OTHER -> state

authReducer(state, action) ==
  CASE action.type = "AUTH_START" -> [state EXCEPT !.isLoading = TRUE]
    [] action.type = "AUTH_SUCCESS" ->
         [state EXCEPT !.isLoading = FALSE, !.isAuthenticated = TRUE,
                       !.user = action.payload.user, !.token = action.payload.token]
    [] action.type = "AUTH_FAILURE" ->
         [state EXCEPT !.isLoading = FALSE, !.isAuthenticated = FALSE,
                       !.user = NoNum, !.token = NoNum]
    [] action.type = "LOGOUT" ->
         [state EXCEPT !.isAuthenticated = FALSE, !.user = NoNum, !.token = NoNum]
    [] action.type = "UPDATE_USER" -> [state EXCEPT !.user = action.payload]
    [] OTHER -> state

(* dispatch of useReducer(authReducer, initialState) *)
dispatch(action) ==
  /\ auth' = authReducer(auth, action)
  /\ UNCHANGED <<leaves, lres, payrolls, pres, attendance, ares, clock, calls>>

(***************************************************************************)
(* The employee directory (Employee Service) and the HR-privilege test.    *)
(***************************************************************************)
Users == {1, 2, 3}

Chars(s) ==
  CASE s = "Engineer" -> <<"E", "n", "g", "i", "n", "e", "e", "r">>
    [] s = "Administrator" -> <<"A", "d", "m", "i", "n", "i", "s", "t", "r", "a", "t", "o", "r">>
    [] s = "HR Manager" -> <<"H", "R", " ", "M", "a", "n", "a", "g", "e", "r">>
    [] s = "HR Intern" -> <<"H", "R", " ", "I", "n", "t", "e", "r", "n">>
    [] s = "Admin" -> <<"A", "d", "m", "i", "n">>
    [] s = "Thresher" -> <<"T", "h", "r", "e", "s", "h", "e", "r">>

(* employee.position as returned by GET /api/employees/:id *)
Position(u) ==
  CASE u = 1 -> Chars("Engineer")
    [] u = 2 -> Chars("Administrator")
    [] u = 3 -> Chars("HR Manager")
    [] u = 4 -> Chars("HR Intern")
    [] u = 5 -> Chars("Admin")
    [] u = 6 -> Chars("Thresher")

(* String.prototype.toLowerCase, per character *)
LowerChar(c) ==
  CASE c = "A" -> "a" [] c = "D" -> "d" [] c = "E" -> "e" [] c = "H" -> "h"
    [] c = "I" -> "i" [] c = "M" -> "m" [] c = "N" -> "n" [] c = "R" -> "r"
    [] c = "T" -> "t"
    [] OTHER -> c

ToLowerCase(s) == [i \in 1..Len(s) |-> LowerChar(s[i])]

(* String.prototype.includes *)
Includes(s, sub) ==
  \E i \in 1..(Len(s) - Len(sub) + 1) : SubSeq(s, i, i + Len(sub) - 1) = sub

IsHRPosition_M(pos) ==
  \/ SubSeq(ToLowerCase(pos), 1, 2) = <<"h", "r">>
  \/ Includes(ToLowerCase(pos), <<"a", "d", "m", "i", "n">>)

(* position.toLowerCase().includes('hr') || position.toLowerCase() ===     *)
(* 'admin'                                                                 *)
IsHRPosition(pos) ==
  \/ Includes(ToLowerCase(pos), <<"h", "r">>)
  \/ ToLowerCase(pos) = <<"a", "d", "m", "i", "n">>

(* checkHRPermission: the directory lookup answers (up) or throws, and a  *)
(* throw is caught and reported as false.  Within one service call the    *)
(* directory is either reachable for every lookup or for none.            *)
checkHRPermission_M(userId, up) == ~up \/ IsHRPosition(Position(userId))

checkHRPermission(userId, up) == up /\ IsHRPosition(Position(userId))

(* the users whose position passes the HR-privilege test *)
HRUsers == {u \in Users : IsHRPosition(Position(u))}

(* the answers of the directory lookup that make a difference for userId:  *)
(* a failed lookup and a position that is not privileged both give false   *)
Lookups(userId) == IF userId \in HRUsers THEN BOOLEAN ELSE {TRUE}

(***************************************************************************)
(* Leave requests                                                          *)
(***************************************************************************)
MaxLeaves == 2

LeaveIds == 1..MaxLeaves

LeaveEmployees == {1}

(* the instants leave requests start and end at: day 0 at 00:00 and day 1  *)
(* at 12:00                                                                *)
LeaveDates == {0, MsPerDay + 12 * MsPerHour}

(* the leave types that have an allocation *)
LeaveTypes == {"annual", "sick", "personal"}

LeaveStatuses == {"pending", "approved", "rejected", "cancelled"}

LeavePreSave_M(doc, modified) ==
  IF modified
  THEN [doc EXCEPT !.daysRequested =
          Ceil(Abs(doc.endDate - doc.startDate), MsPerDay)]
  ELSE doc

(* LeaveRequestSchema.pre('save'): daysRequested is recomputed when        *)
(* startDate or endDate is modified                                        *)
LeavePreSave(doc, modified) ==
  IF modified
  THEN [doc EXCEPT !.daysRequested =
          Ceil(Abs(doc.endDate - doc.startDate), MsPerDay) + 1]
  ELSE doc

Overlapping_M(store, employeeId, startDate, endDate) ==
  \E i \in DOMAIN store :
    /\ store[i].status \in {"pending", "approved"}
    /\ store[i].startDate <= endDate
    /\ store[i].endDate >= startDate

(* the overlap query of createLeaveRequest *)
Overlapping(store, employeeId, startDate, endDate) ==
  \E i \in DOMAIN store :
    /\ store[i].employeeId = employeeId
    /\ store[i].status \in {"pending", "approved"}
    /\ store[i].startDate <= endDate
    /\ store[i].endDate >= startDate

FreeLeaveId == CHOOSE i \in LeaveIds \ DOMAIN leaves : \A j \in LeaveIds \ DOMAIN leaves : i <= j

(* leaveData after leaveRequestSchema.parse: the body carries its own      *)
(* employeeId, and status defaults to pending                              *)
LeaveInputs ==
  {d \in [employeeId : {1, 2}, leaveType : {"annual"},
          startDate : LeaveDates, endDate : LeaveDates,
          status : {"pending", "approved"}, approverId : {NoNum}] :
     d.startDate <= d.endDate}

createLeaveRequest(employeeId, leaveData, up) ==
  /\ DOMAIN leaves # LeaveIds
  /\ IF ~up
     THEN /\ lres' = [op |-> "create", out |-> "invalidEmployee400"]
          /\ UNCHANGED leaves
     ELSE IF Overlapping(leaves, employeeId, leaveData.startDate, leaveData.endDate)
     THEN /\ lres' = [op |-> "create", out |-> "overlap400"]
          /\ UNCHANGED leaves
     ELSE /\ leaves' = leaves @@ (FreeLeaveId :>
                LeavePreSave([employeeId |-> employeeId,
                              leaveType |-> leaveData.leaveType,
                              startDate |-> leaveData.startDate,
                              endDate |-> leaveData.endDate,
                              status |-> leaveData.status,
                              approverId |-> leaveData.approverId,
                              daysRequested |-> 0], TRUE))
          /\ lres' = [op |-> "create", out |-> "ok"]
  /\ UNCHANGED <<payrolls, pres, attendance, ares, clock, calls, auth>>

(* updateData after leaveRequestUpdateSchema.parse: every field optional *)
LeaveUpdates ==
  [startDate : {0}, endDate : {NoNum}, status : {NoStr}]
    \cup [startDate : {NoNum}, endDate : {MsPerDay + 12 * MsPerHour}, status : {NoStr}]
    \cup [startDate : {NoNum}, endDate : {NoNum}, status : LeaveStatuses]

AssignLeave_M(doc, updateData, approverId) ==
  [doc EXCEPT
     !.startDate = IF updateData.startDate # NoNum THEN updateData.startDate ELSE @,
     !.endDate = IF updateData.endDate # NoNum THEN updateData.endDate ELSE @,
     !.status = IF updateData.status # NoStr THEN updateData.status ELSE @]

(* updateData.approverId = userId, then Object.assign(leaveRequest,        *)
(* updateData)                                                             *)
AssignLeave(doc, updateData, approverId) ==
  [doc EXCEPT
     !.startDate = IF updateData.startDate # NoNum THEN updateData.startDate ELSE @,
     !.endDate = IF updateData.endDate # NoNum THEN updateData.endDate ELSE @,
     !.status = IF updateData.status # NoStr THEN updateData.status ELSE @,
     !.approverId = IF approverId # NoNum THEN approverId ELSE @]

NotOwnerNorHR_M(doc, userId, up) == FALSE

(* the first guard of updateLeaveRequest: the directory is asked only for  *)
(* a caller who is not the owner                                           *)
NotOwnerNorHR(doc, userId, up) ==
  doc.employeeId # userId /\ ~checkHRPermission(userId, up)

updateLeaveRequest(requestId, updateData, userId, up) ==
  /\ IF requestId \notin DOMAIN leaves
     THEN /\ lres' = [op |-> "update", out |-> "null"]
          /\ UNCHANGED leaves
     ELSE IF NotOwnerNorHR(leaves[requestId], userId, up)
     THEN /\ lres' = [op |-> "update", out |-> "notOwner403"]
          /\ UNCHANGED leaves
     ELSE IF updateData.status \in {"approved", "rejected"} /\ ~checkHRPermission(userId, up)
     THEN /\ lres' = [op |-> "update", out |-> "notHR403"]
          /\ UNCHANGED leaves
     ELSE LET approverId == IF updateData.status \in {"approved", "rejected"}
                            THEN userId ELSE NoNum
              assigned == AssignLeave(leaves[requestId], updateData, approverId)
              modified == \/ assigned.startDate # leaves[requestId].startDate
                          \/ assigned.endDate # leaves[requestId].endDate
          IN /\ leaves' = [leaves EXCEPT ![requestId] = LeavePreSave(assigned, modified)]
             /\ lres' = [op |-> "update", out |-> "ok"]
  /\ UNCHANGED <<payrolls, pres, attendance, ares, clock, calls, auth>>

DeleteAllowed_M(doc, userId) == doc.employeeId = userId

(* the guard of deleteLeaveRequest: the owner, and only while pending *)
DeleteAllowed(doc, userId) == ~(doc.employeeId # userId \/ doc.status # "pending")

deleteLeaveRequest(requestId, userId) ==
  /\ IF requestId \notin DOMAIN leaves
     THEN /\ lres' = [op |-> "delete", out |-> "false"]
          /\ UNCHANGED leaves
     ELSE IF ~DeleteAllowed(leaves[requestId], userId)
     THEN /\ lres' = [op |-> "delete", out |-> "forbidden403"]
          /\ UNCHANGED leaves
     ELSE /\ leaves' = [i \in DOMAIN leaves \ {requestId} |-> leaves[i]]
          /\ lres' = [op |-> "delete", out |-> "true"]
  /\ UNCHANGED <<payrolls, pres, attendance, ares, clock, calls, auth>>

(* The calendar.  Instant 0 is 10 December 2023, 00:00 local time, so 1    *)
(* January 2023 is day -343, 1 January 2024 is day 22 and 1 January 2025   *)
(* is day 388.                                                             *)
DayOf(t) == t \div MsPerDay

FirstDayOfYear(y) ==
  CASE y = 2023 -> -343
    [] y = 2024 -> 22
    [] y = 2025 -> 388

(* Date.prototype.getFullYear / moment().year() *)
YearOf(t) ==
  IF DayOf(t) < FirstDayOfYear(2024) THEN 2023
  ELSE IF DayOf(t) < FirstDayOfYear(2025) THEN 2024 ELSE 2025

(* moment().isLeapYear() *)
IsLeapYear(y) == y % 4 = 0 /\ (y % 100 # 0 \/ y % 400 = 0)

(* the allocations of getLeaveBalance *)
Allocation(type) ==
  CASE type = "annual" -> 21 [] type = "sick" -> 10 [] type = "personal" -> 5

(* approvedLeaves.reduce: the daysRequested of the documents ids, summed *)
RECURSIVE SumDays(_, _)
SumDays(store, ids) ==
  IF ids = {} THEN 0
  ELSE LET i == CHOOSE i \in ids : TRUE
       IN store[i].daysRequested + SumDays(store, ids \ {i})

(* the find of getLeaveBalance: startDate >= new Date(year, 0, 1) and      *)
(* endDate <= new Date(year, 11, 31), both bounds at 00:00                 *)
ApprovedInYear(store, employeeId, year) ==
  {i \in DOMAIN store :
     /\ store[i].employeeId = employeeId
     /\ store[i].status = "approved"
     /\ DayOf(store[i].startDate) >= FirstDayOfYear(year)
     /\ \/ DayOf(store[i].endDate) < FirstDayOfYear(year + 1) - 1
        \/ /\ DayOf(store[i].endDate) = FirstDayOfYear(year + 1) - 1
           /\ store[i].endDate % MsPerDay = 0}

getLeaveBalance(employeeId) ==
  LET currentYear == YearOf(clock)
      approvedLeaves == ApprovedInYear(leaves, employeeId, currentYear)
      used == [type \in LeaveTypes |->
                 SumDays(leaves, {i \in approvedLeaves : leaves[i].leaveType = type})]
  IN /\ lres' = [op |-> "balance",
                 out |-> [employeeId |-> employeeId,
                          annual |-> Allocation("annual") - used["annual"],
                          sick |-> Allocation("sick") - used["sick"],
                          personal |-> Allocation("personal") - used["personal"]]]
     /\ UNCHANGED <<leaves, payrolls, pres, attendance, ares, clock, calls, auth>>

(***************************************************************************)
(* Attendance                                                              *)
(***************************************************************************)
AttEmployees == {1}

(* the values a document's date takes: the start of day 0, and noon of    *)
(* day 0 through updateAttendance                                          *)
AttDates == {0, 12 * MsPerHour}

(* the unique index allows one document per employee and date value *)
AttendanceIds == 1..Cardinality(AttEmployees \X AttDates)

(* the instants at which the server clock is read, all on day 0:           *)
(* 09:00:00, 09:15:00 and 17:30:25                                         *)
TimePoints == {9 * MsPerHour, 9 * MsPerHour + 900000, 17 * MsPerHour + 1825000}

(* moment(t).startOf('day') *)
StartOfDay(t) == (t \div MsPerDay) * MsPerDay

(* Math.round(x / y) for y > 0: the nearest integer, halves towards +Infinity *)
Round_M(x, y) == x \div y

Round(x, y) == (2 * x + y) \div (2 * y)

(* AttendanceSchema.pre('save'): hoursWorked, kept here in hundredths of   *)
(* an hour, is Math.round(diffTime / 3600000 * 100) / 100                  *)
AttendancePreSave(doc) ==
  IF doc.checkIn # NoNum /\ doc.checkOut # NoNum
  THEN [doc EXCEPT !.hoursWorked = Round(doc.checkOut - doc.checkIn, MsPerHour \div 100)]
  ELSE doc

(* Attendance.findOne({ employeeId, date }) *)
FindAttendance(store, employeeId, date) ==
  {i \in DOMAIN store : store[i].employeeId = employeeId /\ store[i].date = date}

(* the unique index { employeeId: 1, date: 1 }: writing doc under id       *)
(* collides with another document that has the same key                    *)
AttendanceDuplicateKey(store, id, doc) ==
  \E i \in DOMAIN store \ {id} :
    store[i].employeeId = doc.employeeId /\ store[i].date = doc.date

FreeAttendanceId ==
  CHOOSE i \in AttendanceIds \ DOMAIN attendance :
    \A j \in AttendanceIds \ DOMAIN attendance : i <= j

(* new Attendance(attendanceData) with the schema defaults *)
NewAttendance(employeeId, date, checkIn, status, location, isRemote) ==
  [employeeId |-> employeeId, date |-> date, checkIn |-> checkIn,
   checkOut |-> NoNum, status |-> status, location |-> location,
   isRemote |-> isRemote, hoursWorked |-> NoNum]

(* the status checkIn gives: late when now is after 09:00 of the day *)
CheckInStatus_M(now) ==
  IF now >= StartOfDay(now) + 9 * MsPerHour THEN "late" ELSE "present"

CheckInStatus(now) ==
  IF now > StartOfDay(now) + 9 * MsPerHour THEN "late" ELSE "present"

checkIn(employeeId, location, isRemote) ==
  LET today == StartOfDay(clock)
      now == clock
      existing == FindAttendance(attendance, employeeId, today)
  IN /\ IF existing # {} /\ (\E i \in existing : attendance[i].checkIn # NoNum)
        THEN /\ ares' = [op |-> "checkIn", out |-> "alreadyCheckedIn400"]
             /\ UNCHANGED attendance
        ELSE IF existing # {}
        THEN LET i == CHOOSE i \in existing : TRUE
             IN /\ attendance' = [attendance EXCEPT ![i] =
                     AttendancePreSave([@ EXCEPT !.checkIn = now,
                                                 !.status = CheckInStatus(now),
                                                 !.location = location,
                                                 !.isRemote = isRemote])]
                /\ ares' = [op |-> "checkIn", out |-> "ok"]
        ELSE /\ DOMAIN attendance # AttendanceIds
             /\ attendance' = attendance @@ (FreeAttendanceId :>
                  AttendancePreSave(NewAttendance(employeeId, today, now,
                                                  CheckInStatus(now), location, isRemote)))
             /\ ares' = [op |-> "checkIn", out |-> "ok"]
     /\ UNCHANGED <<leaves, lres, payrolls, pres, clock, calls, auth>>

CheckOutOutcome_M(store, found) ==
  IF found = {} THEN "noRecord400"
  ELSE IF \A i \in found : store[i].checkIn = NoNum THEN "notCheckedIn400"
  ELSE "ok"

(* the three guards of checkOut on the document findOne returned *)
CheckOutOutcome(store, found) ==
  IF found = {} THEN "noRecord400"
  ELSE IF \A i \in found : store[i].checkIn = NoNum THEN "notCheckedIn400"
  ELSE IF \A i \in found : store[i].checkOut # NoNum THEN "alreadyCheckedOut400"
  ELSE "ok"

checkOut(employeeId) ==
  LET today == StartOfDay(clock)
      now == clock
      found == FindAttendance(attendance, employeeId, today)
      out == CheckOutOutcome(attendance, found)
  IN /\ ares' = [op |-> "checkOut", out |-> out]
     /\ IF out = "ok"
        THEN LET i == CHOOSE i \in found : TRUE
             IN attendance' = [attendance EXCEPT ![i] =
                  AttendancePreSave([@ EXCEPT !.checkOut = now])]
        ELSE UNCHANGED attendance
     /\ UNCHANGED <<leaves, lres, payrolls, pres, clock, calls, auth>>

(* updateData of updateAttendance: one optional field at a time *)
AttendanceUpdates ==
  [checkIn : {8 * MsPerHour}, checkOut : {NoNum}, date : {NoNum}]
    \cup [checkIn : {NoNum}, checkOut : {8 * MsPerHour + 1800000}, date : {NoNum}]
    \cup [checkIn : {NoNum}, checkOut : {NoNum}, date : {NoNum} \cup AttDates]

(* Object.assign(attendance, updateData) and the three new Date(...) lines *)
AssignAttendance(doc, updateData) ==
  [doc EXCEPT
     !.checkIn = IF updateData.checkIn # NoNum THEN updateData.checkIn ELSE @,
     !.checkOut = IF updateData.checkOut # NoNum THEN updateData.checkOut ELSE @,
     !.date = IF updateData.date # NoNum THEN updateData.date ELSE @]

updateAttendance(attendanceId, updateData, userId) ==
  /\ IF attendanceId \notin DOMAIN attendance
     THEN /\ ares' = [op |-> "update", out |-> "null"]
          /\ UNCHANGED attendance
     ELSE LET doc == AttendancePreSave(AssignAttendance(attendance[attendanceId], updateData))
          IN IF AttendanceDuplicateKey(attendance, attendanceId, doc)
             THEN /\ ares' = [op |-> "update", out |-> "duplicateKey"]
                  /\ UNCHANGED attendance
             ELSE /\ attendance' = [attendance EXCEPT ![attendanceId] = doc]
                  /\ ares' = [op |-> "update", out |-> "ok"]
  /\ UNCHANGED <<leaves, lres, payrolls, pres, clock, calls, auth>>

markAbsent(employeeId, date) ==
  LET targetDate == StartOfDay(date)
      existing == FindAttendance(attendance, employeeId, targetDate)
  IN /\ IF existing # {}
        THEN LET i == CHOOSE i \in existing : TRUE
             IN attendance' = [attendance EXCEPT ![i] =
                  AttendancePreSave([@ EXCEPT !.status = "absent"])]
        ELSE /\ DOMAIN attendance # AttendanceIds
             /\ attendance' = attendance @@ (FreeAttendanceId :>
                  AttendancePreSave(NewAttendance(employeeId, targetDate, NoNum,
                                                  "absent", NoStr, FALSE)))
     /\ ares' = [op |-> "markAbsent", out |-> "ok"]
     /\ UNCHANGED <<leaves, lres, payrolls, pres, clock, calls, auth>>

(* the server clock moves on to a later instant *)
Tick ==
  /\ \E t \in TimePoints : t > clock /\ clock' = t
  /\ UNCHANGED <<leaves, lres, payrolls, pres, attendance, ares, calls, auth>>

(***************************************************************************)
(* Payroll.  Amounts are exact rationals [n, d] in lowest terms, d > 0.    *)
(***************************************************************************)
RECURSIVE GCD(_, _)
GCD(a, b) == IF b = 0 THEN a ELSE GCD(b, a % b)

Rat(n, d) ==
  LET g == GCD(Abs(n), d) IN [n |-> n \div g, d |-> d \div g]

RAdd(a, b) ==
  LET l == (a.d \div GCD(a.d, b.d)) * b.d
  IN Rat(a.n * (l \div a.d) + b.n * (l \div b.d), l)

RNeg(a) == [n |-> -a.n, d |-> a.d]

RSub(a, b) == RAdd(a, RNeg(b))

RMul(a, b) ==
  LET g1 == GCD(Abs(a.n), b.d)
      g2 == GCD(Abs(b.n), a.d)
  IN Rat((a.n \div g1) * (b.n \div g2), (a.d \div g2) * (b.d \div g1))

RLeq(a, b) == RSub(a, b).n <= 0

RMax(a, b) == IF RLeq(a, b) THEN b ELSE a

PayEmployees == {1}

(* the users who call the HR operations: 2 is not HR-privileged, 3 is *)
PayUsers == {2, 3}

(* employee.salary as returned by the employee directory *)
Salary(e) == 74880

PayStarts == {0}

PayEnds == {6 * MsPerDay, 14 * MsPerDay}

PayDay == 15 * MsPerDay

(* the unique index allows one document per employee and pay period *)
PayrollIds == 1..Cardinality(PayEmployees \X PayStarts \X PayEnds)

PayrollStatuses == {"draft", "processed", "paid", "cancelled"}

PayrollPreSave_M(doc) ==
  LET overtimePay == RMul(doc.overtimeHours, doc.overtimeRate)
      grossPay == RAdd(doc.baseSalary, overtimePay)
      totalDeductions ==
        RAdd(RAdd(doc.deductions.tax, doc.deductions.insurance),
             RAdd(doc.deductions.retirement, doc.deductions.other))
  IN [doc EXCEPT !.grossPay = grossPay,
                 !.totalDeductions = totalDeductions,
                 !.netPay = RSub(grossPay, totalDeductions)]

(* PayrollSchema.pre('save') *)
PayrollPreSave(doc) ==
  LET overtimePay == RMul(doc.overtimeHours, doc.overtimeRate)
      grossPay == RAdd(RAdd(doc.baseSalary, overtimePay), doc.bonuses)
      totalDeductions ==
        RAdd(RAdd(doc.deductions.tax, doc.deductions.insurance),
             RAdd(doc.deductions.retirement, doc.deductions.other))
  IN [doc EXCEPT !.grossPay = grossPay,
                 !.totalDeductions = totalDeductions,
                 !.netPay = RSub(grossPay, totalDeductions)]

(* Payroll.findOne({ employeeId, payPeriodStart, payPeriodEnd }), also the *)
(* key of the unique index                                                 *)
FindPayroll(store, employeeId, payPeriodStart, payPeriodEnd) ==
  {i \in DOMAIN store : /\ store[i].employeeId = employeeId
                        /\ store[i].payPeriodStart = payPeriodStart
                        /\ store[i].payPeriodEnd = payPeriodEnd}

FreePayrollId ==
  CHOOSE i \in PayrollIds \ DOMAIN payrolls :
    \A j \in PayrollIds \ DOMAIN payrolls : i <= j

(* the body of createPayroll, shared with generatePayroll *)
CreatePayrollOutcome(payrollData, up) ==
  IF ~up THEN "invalidEmployee400"
  ELSE IF FindPayroll(payrolls, payrollData.employeeId, payrollData.payPeriodStart,
                      payrollData.payPeriodEnd) # {}
  THEN "exists400"
  ELSE "ok"

NewPayroll(payrollData) ==
  PayrollPreSave(
    [employeeId |-> payrollData.employeeId,
     payPeriodStart |-> payrollData.payPeriodStart,
     payPeriodEnd |-> payrollData.payPeriodEnd,
     baseSalary |-> payrollData.baseSalary,
     overtimeHours |-> payrollData.overtimeHours,
     overtimeRate |-> payrollData.overtimeRate,
     bonuses |-> payrollData.bonuses,
     deductions |-> payrollData.deductions,
     grossPay |-> Rat(0, 1), totalDeductions |-> Rat(0, 1), netPay |-> Rat(0, 1),
     status |-> payrollData.status,
     paymentDate |-> payrollData.paymentDate])

(* payrollData after payrollSchema.parse, status left to its default *)
PayrollInputs ==
  [employeeId : PayEmployees, payPeriodStart : PayStarts, payPeriodEnd : PayEnds,
   baseSalary : {Rat(3000, 1)}, overtimeHours : {Rat(0, 1)}, overtimeRate : {Rat(0, 1)},
   bonuses : {Rat(0, 1)},
   deductions : {[tax |-> Rat(660, 1), insurance |-> Rat(150, 1),
                  retirement |-> Rat(180, 1), other |-> Rat(0, 1)]},
   status : {"draft"}, paymentDate : {NoNum}]

createPayroll(payrollData, up) ==
  /\ pres' = [op |-> "create", id |-> 0, user |-> 0, out |-> CreatePayrollOutcome(payrollData, up)]
  /\ IF CreatePayrollOutcome(payrollData, up) = "ok"
     THEN payrolls' = payrolls @@ (FreePayrollId :> NewPayroll(payrollData))
     ELSE UNCHANGED payrolls
  /\ UNCHANGED <<leaves, lres, attendance, ares, clock, calls, auth>>

(* the find of calculateHoursWorked: the employee's records dated within   *)
(* the period that have hoursWorked                                        *)
WorkedRecords_M(store, employeeId, startDate, endDate) ==
  {i \in DOMAIN store :
     /\ store[i].employeeId = employeeId
     /\ store[i].hoursWorked # NoNum}

WorkedRecords(store, employeeId, startDate, endDate) ==
  {i \in DOMAIN store :
     /\ store[i].employeeId = employeeId
     /\ store[i].date >= startDate
     /\ store[i].date <= endDate
     /\ store[i].hoursWorked # NoNum}

(* calculateHoursWorked, in hundredths of an hour *)
RECURSIVE SumHours(_, _)
SumHours(store, ids) ==
  IF ids = {} THEN 0
  ELSE LET i == CHOOSE i \in ids : TRUE
       IN store[i].hoursWorked + SumHours(store, ids \ {i})

calculateHoursWorked(employeeId, startDate, endDate) ==
  LET found == WorkedRecords(attendance, employeeId, startDate, endDate)
      totalHours == SumHours(attendance, found)
      workingDays == Cardinality(found)
      regularHours == Min(totalHours, workingDays * 800)
  IN [totalHours |-> Rat(totalHours, 100), regularHours |-> Rat(regularHours, 100),
      overtimeHours |-> Rat(Max(0, totalHours - regularHours), 100)]

(* moment(b).diff(moment(a), 'days'): whole days, truncated towards zero *)
DiffDays(b, a) ==
  IF b >= a THEN (b - a) \div MsPerDay ELSE -((a - b) \div MsPerDay)

(* calculateBaseSalary; leapNow is moment().isLeapYear(), the leap status  *)
(* of the year the server clock is in                                      *)
calculateBaseSalary(annualSalary, startDate, endDate, leapNow) ==
  LET daysInPeriod == DiffDays(endDate, startDate) + 1
      daysInYear == IF leapNow THEN 366 ELSE 365
  IN RMul(Rat(annualSalary, daysInYear), Rat(daysInPeriod, 1))

calculateDeductions_M(grossPay) ==
  [tax |-> RMul(grossPay, Rat(20, 100)),
   insurance |-> RMul(grossPay, Rat(5, 100)),
   retirement |-> RMul(grossPay, Rat(6, 100)),
   other |-> Rat(0, 1)]

(* calculateDeductions: 22% tax, 5% insurance, 6% retirement *)
calculateDeductions(grossPay) ==
  [tax |-> RMul(grossPay, Rat(22, 100)),
   insurance |-> RMul(grossPay, Rat(5, 100)),
   retirement |-> RMul(grossPay, Rat(6, 100)),
   other |-> Rat(0, 1)]

GeneratedPayrollData(employeeId, payPeriodStart, payPeriodEnd, leapNow) ==
  LET hoursData == calculateHoursWorked(employeeId, payPeriodStart, payPeriodEnd)
      baseSalary == calculateBaseSalary(Salary(employeeId), payPeriodStart, payPeriodEnd, leapNow)
      overtimeHours == RMax(Rat(0, 1), RSub(hoursData.totalHours, hoursData.regularHours))
      overtimeRate == RMul(Rat(Salary(employeeId), 2080), Rat(3, 2))
  IN [employeeId |-> employeeId, payPeriodStart |-> payPeriodStart,
      payPeriodEnd |-> payPeriodEnd, baseSalary |-> baseSalary,
      overtimeHours |-> overtimeHours, overtimeRate |-> overtimeRate,
      bonuses |-> Rat(0, 1),
      deductions |-> calculateDeductions(RAdd(baseSalary, RMul(overtimeHours, overtimeRate))),
      status |-> "draft", paymentDate |-> NoNum]

generatePayroll(employeeId, payPeriodStart, payPeriodEnd, up) ==
  LET payrollData == GeneratedPayrollData(employeeId, payPeriodStart, payPeriodEnd,
                                          IsLeapYear(YearOf(clock)))
      out == IF ~up THEN "fetchFailed500" ELSE CreatePayrollOutcome(payrollData, up)
  IN /\ pres' = [op |-> "generate", id |-> 0, user |-> 0, out |-> out]
     /\ IF out = "ok"
        THEN payrolls' = payrolls @@ (FreePayrollId :> NewPayroll(payrollData))
        ELSE UNCHANGED payrolls
     /\ UNCHANGED <<leaves, lres, attendance, ares, clock, calls, auth>>

(* updateData of updatePayroll: one optional field at a time *)
PayrollUpdates ==
  [bonuses : {500}, status : {NoStr}, payPeriodEnd : {NoNum}, paymentDate : {NoNum}]
    \cup [bonuses : {NoNum}, status : PayrollStatuses, payPeriodEnd : {NoNum}, paymentDate : {NoNum}]
    \cup [bonuses : {NoNum}, status : {NoStr}, payPeriodEnd : {14 * MsPerDay}, paymentDate : {NoNum}]

(* Object.assign(payroll, updateData) and the three new Date(...) lines *)
AssignPayroll(doc, updateData) ==
  [doc EXCEPT
     !.bonuses = IF updateData.bonuses # NoNum THEN Rat(updateData.bonuses, 1) ELSE @,
     !.status = IF updateData.status # NoStr THEN updateData.status ELSE @,
     !.payPeriodEnd = IF updateData.payPeriodEnd # NoNum THEN updateData.payPeriodEnd ELSE @,
     !.paymentDate = IF updateData.paymentDate # NoNum THEN updateData.paymentDate ELSE @]

PayrollDuplicateKey_M(store, id, doc) == FALSE

(* the unique index: writing doc under id collides with another document *)
PayrollDuplicateKey(store, id, doc) ==
  FindPayroll(store, doc.employeeId, doc.payPeriodStart, doc.payPeriodEnd) \ {id} # {}

PaidLocked_M(doc) == doc.status = "processed"

(* the guard of updatePayroll against paid records *)
PaidLocked(doc) == doc.status = "paid"

updatePayroll(payrollId, updateData, userId, up) ==
  /\ IF payrollId \notin DOMAIN payrolls
     THEN /\ pres' = [op |-> "update", id |-> payrollId, user |-> userId, out |-> "null"]
          /\ UNCHANGED payrolls
     ELSE IF ~checkHRPermission(userId, up)
     THEN /\ pres' = [op |-> "update", id |-> payrollId, user |-> userId, out |-> "notHR403"]
          /\ UNCHANGED payrolls
     ELSE IF PaidLocked(payrolls[payrollId])
     THEN /\ pres' = [op |-> "update", id |-> payrollId, user |-> userId, out |-> "paid400"]
          /\ UNCHANGED payrolls
     ELSE LET doc == PayrollPreSave(AssignPayroll(payrolls[payrollId], updateData))
          IN IF PayrollDuplicateKey(payrolls, payrollId, doc)
             THEN /\ pres' = [op |-> "update", id |-> payrollId, user |-> userId, out |-> "duplicateKey"]
                  /\ UNCHANGED payrolls
             ELSE /\ payrolls' = [payrolls EXCEPT ![payrollId] = doc]
                  /\ pres' = [op |-> "update", id |-> payrollId, user |-> userId, out |-> "ok"]
  /\ UNCHANGED <<leaves, lres, attendance, ares, clock, calls, auth>>

processPayroll(payrollId, userId, up) ==
  /\ IF payrollId \notin DOMAIN payrolls
     THEN /\ pres' = [op |-> "process", id |-> payrollId, user |-> userId, out |-> "null"]
          /\ UNCHANGED payrolls
     ELSE IF ~checkHRPermission(userId, up)
     THEN /\ pres' = [op |-> "process", id |-> payrollId, user |-> userId, out |-> "notHR403"]
          /\ UNCHANGED payrolls
     ELSE IF payrolls[payrollId].status # "draft"
     THEN /\ pres' = [op |-> "process", id |-> payrollId, user |-> userId, out |-> "notDraft400"]
          /\ UNCHANGED payrolls
     ELSE /\ payrolls' = [payrolls EXCEPT ![payrollId] =
                            PayrollPreSave([@ EXCEPT !.status = "processed"])]
          /\ pres' = [op |-> "process", id |-> payrollId, user |-> userId, out |-> "ok"]
  /\ UNCHANGED <<leaves, lres, attendance, ares, clock, calls, auth>>

markPayrollAsPaid(payrollId, userId, paymentDate, up) ==
  /\ IF payrollId \notin DOMAIN payrolls
     THEN /\ pres' = [op |-> "markPaid", id |-> payrollId, user |-> userId, out |-> "null"]
          /\ UNCHANGED payrolls
     ELSE IF ~checkHRPermission(userId, up)
     THEN /\ pres' = [op |-> "markPaid", id |-> payrollId, user |-> userId, out |-> "notHR403"]
          /\ UNCHANGED payrolls
     ELSE IF payrolls[payrollId].status # "processed"
     THEN /\ pres' = [op |-> "markPaid", id |-> payrollId, user |-> userId, out |-> "notProcessed400"]
          /\ UNCHANGED payrolls
     ELSE /\ payrolls' = [payrolls EXCEPT ![payrollId] =
                            PayrollPreSave([@ EXCEPT
                              !.status = "paid",
                              !.paymentDate = IF paymentDate # NoNum THEN paymentDate ELSE clock])]
          /\ pres' = [op |-> "markPaid", id |-> payrollId, user |-> userId, out |-> "ok"]
  /\ UNCHANGED <<leaves, lres, attendance, ares, clock, calls, auth>>

(***************************************************************************)
(* Two checkIn calls in flight.  Each call reads the clock and runs its    *)
(* findOne (CheckInRead), and later saves (CheckInWrite); the await        *)
(* between the two lets the other call run.                                *)
(***************************************************************************)
CallIds == {1, 2}

NoDoc == NewAttendance(0, 0, NoNum, NoStr, NoStr, FALSE)

IdleCall ==
  [pc |-> "idle", employeeId |-> 0, today |-> 0, now |-> 0, existing |-> 0,
   snap |-> NoDoc, early |-> FALSE, out |-> "none"]

(* checkIn up to the throw of 'You have already checked in today' *)
CheckInRead(c, employeeId) ==
  LET today == StartOfDay(clock)
      found == FindAttendance(attendance, employeeId, today)
      id == IF found = {} THEN 0 ELSE CHOOSE i \in found : TRUE
      early == \A o \in CallIds \ {c} : calls[o].pc # "done"
  IN /\ calls[c].pc = "idle"
     /\ IF id # 0 /\ attendance[id].checkIn # NoNum
        THEN calls' = [calls EXCEPT ![c] =
               [IdleCall EXCEPT !.pc = "done", !.employeeId = employeeId,
                                !.today = today, !.now = clock, !.early = early,
                                !.out = "alreadyCheckedIn400"]]
        ELSE calls' = [calls EXCEPT ![c] =
               [IdleCall EXCEPT !.pc = "read", !.employeeId = employeeId,
                                !.today = today, !.now = clock, !.existing = id,
                                !.snap = IF id # 0 THEN attendance[id] ELSE NoDoc,
                                !.early = early]]
     /\ UNCHANGED <<leaves, lres, payrolls, pres, attendance, ares, clock, auth>>

(* document.save() of a loaded document: the paths that differ from the    *)
(* loaded values are $set on the stored document                           *)
SaveModified(stored, loaded, assigned) ==
  [f \in DOMAIN stored |-> IF assigned[f] # loaded[f] THEN assigned[f] ELSE stored[f]]

(* the rest of checkIn: the status, then save() of the loaded document or  *)
(* of a new one, which the unique index may refuse                         *)
CheckInWrite(c) ==
  LET call == calls[c]
      status == IF call.now > StartOfDay(clock) + 9 * MsPerHour THEN "late" ELSE "present"
      assigned == AttendancePreSave([call.snap EXCEPT !.checkIn = call.now,
                                                     !.status = status,
                                                     !.location = "office",
                                                     !.isRemote = TRUE])
      created == AttendancePreSave(NewAttendance(call.employeeId, call.today, call.now,
                                                 status, "office", TRUE))
  IN /\ call.pc = "read"
     /\ IF call.existing # 0
        THEN /\ attendance' = [attendance EXCEPT ![call.existing] =
                                 SaveModified(@, call.snap, assigned)]
             /\ calls' = [calls EXCEPT ![c].pc = "done", ![c].out = "ok"]
        ELSE IF AttendanceDuplicateKey(attendance, 0, created)
        THEN /\ calls' = [calls EXCEPT ![c].pc = "done", ![c].out = "duplicateKey"]
             /\ UNCHANGED attendance
        ELSE /\ DOMAIN attendance # AttendanceIds
             /\ attendance' = attendance @@ (FreeAttendanceId :> created)
             /\ calls' = [calls EXCEPT ![c].pc = "done", ![c].out = "ok"]
     /\ UNCHANGED <<leaves, lres, payrolls, pres, ares, clock, auth>>

(***************************************************************************)
(* Two createPayroll / generatePayroll calls in flight.  A call validates  *)
(* the employee and runs its findOne (CreatePayrollRead,                   *)
(* GeneratePayrollRead), and later saves (CreatePayrollWrite); the awaits  *)
(* in between let the other call and updatePayroll run.  A call that has   *)
(* returned can be made again.                                             *)
(***************************************************************************)
IdlePayrollCall == [pc |-> "idle", data |-> <<>>, out |-> "none"]

CreatePayrollRead(c, payrollData, up) ==
  LET out == CreatePayrollOutcome(payrollData, up)
  IN /\ calls[c].pc = "idle"
     /\ calls' = [calls EXCEPT ![c] =
          [pc |-> IF out = "ok" THEN "read" ELSE "done", data |-> payrollData,
           out |-> IF out = "ok" THEN "none" ELSE out]]
     /\ UNCHANGED <<leaves, lres, payrolls, pres, attendance, ares, clock, auth>>

GeneratePayrollRead(c, employeeId, payPeriodStart, payPeriodEnd, up) ==
  LET payrollData == GeneratedPayrollData(employeeId, payPeriodStart, payPeriodEnd,
                                          IsLeapYear(YearOf(clock)))
      out == IF ~up THEN "fetchFailed500" ELSE CreatePayrollOutcome(payrollData, up)
  IN /\ calls[c].pc = "idle"
     /\ calls' = [calls EXCEPT ![c] =
          [pc |-> IF out = "ok" THEN "read" ELSE "done", data |-> payrollData,
           out |-> IF out = "ok" THEN "none" ELSE out]]
     /\ UNCHANGED <<leaves, lres, payrolls, pres, attendance, ares, clock, auth>>

(* payroll.save(): the unique index may refuse the insert, and the catch   *)
(* of createPayroll turns that into 'Failed to create payroll' (500)       *)
CreatePayrollWrite(c) ==
  LET doc == NewPayroll(calls[c].data)
  IN /\ calls[c].pc = "read"
     /\ IF PayrollDuplicateKey(payrolls, 0, doc)
        THEN /\ calls' = [calls EXCEPT ![c].pc = "done", ![c].out = "failed500"]
             /\ UNCHANGED payrolls
        ELSE /\ DOMAIN payrolls # PayrollIds
             /\ payrolls' = payrolls @@ (FreePayrollId :> doc)
             /\ calls' = [calls EXCEPT ![c].pc = "done", ![c].out = "ok"]
     /\ UNCHANGED <<leaves, lres, pres, attendance, ares, clock, auth>>

CreatePayrollReturn(c) ==
  /\ calls[c].pc = "done"
  /\ calls' = [calls EXCEPT ![c] = IdlePayrollCall]
  /\ UNCHANGED <<leaves, lres, payrolls, pres, attendance, ares, clock, auth>>

NoResult == [op |-> "none", out |-> "none"]

NoPayrollResult == [op |-> "none", id |-> 0, user |-> 0, out |-> "none"]

InitIdle ==
  /\ leaves = <<>>
  /\ lres = NoResult
  /\ payrolls = <<>>
  /\ pres = NoPayrollResult
  /\ attendance = <<>>
  /\ ares = NoResult
  /\ clock = 9 * MsPerHour
  /\ calls = <<>>
  /\ auth = initialState(NoNum)

LeaveInit == InitIdle

AuthInit ==
  /\ leaves = <<>>
  /\ lres = [op |-> "none", out |-> "none"]
  /\ payrolls = <<>>
  /\ pres = [op |-> "none", id |-> 0, user |-> 0, out |-> "none"]
  /\ attendance = <<>>
  /\ ares = [op |-> "none", out |-> "none"]
  /\ clock = 9 * MsPerHour
  /\ calls = <<>>
  /\ \E token \in {NoNum} \cup (1..MaxTokens) : auth = initialState(token)

AuthNext == \E action \in AuthActions : dispatch(action)

AuthSpec == AuthInit /\ [][AuthNext]_vars

LeaveNext ==
  \/ \E e \in LeaveEmployees, d \in LeaveInputs, up \in BOOLEAN :
       createLeaveRequest(e, d, up)
  \/ \E i \in LeaveIds, d \in LeaveUpdates, u \in Users :
       \E up \in Lookups(u) : updateLeaveRequest(i, d, u, up)
  \/ \E i \in LeaveIds, u \in Users : deleteLeaveRequest(i, u)

LeaveSpec == LeaveInit /\ [][LeaveNext]_vars

(* The life cycle of leave requests alone: every request is for day 0, and *)
(* the updates are the ones that set a status.                             *)
StatusInputs == {d \in LeaveInputs : d.startDate = 0 /\ d.endDate = 0}

StatusUpdates == {d \in LeaveUpdates : d.status # NoStr}

LeaveStatusNext ==
  \/ \E e \in LeaveEmployees, d \in StatusInputs, up \in BOOLEAN :
       createLeaveRequest(e, d, up)
  \/ \E i \in LeaveIds, d \in StatusUpdates, u \in Users :
       \E up \in Lookups(u) : updateLeaveRequest(i, d, u, up)
  \/ \E i \in LeaveIds, u \in Users : deleteLeaveRequest(i, u)

LeaveStatusSpec == LeaveInit /\ [][LeaveStatusNext]_vars

(* Leave balances at the end of the year: on 10 December 2023 the          *)
(* collection holds a request for that day and a request that starts on    *)
(* 30 December and ends on 30 December, on 31 December at 00:00 or 12:00,  *)
(* or on 2 January; or it holds nothing.                                   *)
BalanceEmployees == {1, 2}

BalanceDoc(employeeId, leaveType, status, startDate, endDate) ==
  LeavePreSave([employeeId |-> employeeId, leaveType |-> leaveType,
                startDate |-> startDate, endDate |-> endDate, status |-> status,
                approverId |-> IF status \in {"approved", "rejected"} THEN 3 ELSE NoNum,
                daysRequested |-> 0], TRUE)

BalanceStores ==
  {<<>>} \cup
  {(1 :> BalanceDoc(1, t1, s1, 0, 0)) @@ (2 :> BalanceDoc(e2, t2, s2, 20 * MsPerDay, d2)) :
     t1 \in LeaveTypes, s1 \in {"approved", "pending"},
     e2 \in BalanceEmployees, t2 \in LeaveTypes, s2 \in {"approved", "rejected"},
     d2 \in {20 * MsPerDay, 21 * MsPerDay, 21 * MsPerDay + 12 * MsPerHour, 23 * MsPerDay}}

BalanceInit ==
  /\ leaves \in BalanceStores
  /\ lres = NoResult
  /\ payrolls = <<>>
  /\ pres = NoPayrollResult
  /\ attendance = <<>>
  /\ ares = NoResult
  /\ clock = 9 * MsPerHour
  /\ calls = <<>>
  /\ auth = initialState(NoNum)

BalanceNext == \E e \in BalanceEmployees : getLeaveBalance(e)

BalanceSpec == BalanceInit /\ [][BalanceNext]_vars

(* Two employees filing requests, the owner cancelling and HR rejecting.   *)
OverlapEmployees == {1, 2}

OverlapInputs == {d \in LeaveInputs : d.employeeId = 1}

OverlapUpdates == {d \in StatusUpdates : d.status \in {"rejected", "cancelled"}}

LeaveOverlapNext ==
  \/ \E e \in OverlapEmployees, d \in OverlapInputs, up \in BOOLEAN :
       createLeaveRequest(e, d, up)
  \/ \E i \in LeaveIds, d \in OverlapUpdates, u \in Users :
       \E up \in Lookups(u) : updateLeaveRequest(i, d, u, up)

LeaveOverlapSpec == LeaveInit /\ [][LeaveOverlapNext]_vars

AttendanceInit == InitIdle

AttendanceNext ==
  \/ \E e \in AttEmployees : checkIn(e, "office", TRUE)
  \/ \E e \in AttEmployees : checkOut(e)
  \/ \E i \in AttendanceIds, d \in AttendanceUpdates, u \in Users : updateAttendance(i, d, u)
  \/ \E e \in AttEmployees, d \in TimePoints : markAbsent(e, d)
  \/ Tick

AttendanceSpec == AttendanceInit /\ [][AttendanceNext]_vars

(* an attendance collection AttendanceSpec reaches: one day worked from    *)
(* 09:00:00 to 17:30:25                                                    *)
WorkedDay ==
  1 :> [employeeId |-> 1, date |-> 0, checkIn |-> 9 * MsPerHour,
        checkOut |-> 17 * MsPerHour + 1825000, status |-> "present",
        location |-> "office", isRemote |-> TRUE, hoursWorked |-> 851]

PayrollInit ==
  /\ leaves = <<>>
  /\ lres = NoResult
  /\ payrolls = <<>>
  /\ pres = NoPayrollResult
  /\ attendance = WorkedDay
  /\ ares = NoResult
  /\ clock = 9 * MsPerHour
  /\ calls = <<>>
  /\ auth = initialState(NoNum)

PayrollNext ==
  \/ \E d \in PayrollInputs, up \in BOOLEAN : createPayroll(d, up)
  \/ \E e \in PayEmployees, s \in PayStarts, t \in PayEnds, up \in BOOLEAN :
       generatePayroll(e, s, t, up)
  \/ \E i \in PayrollIds, d \in PayrollUpdates, u \in PayUsers, up \in BOOLEAN :
       updatePayroll(i, d, u, up)
  \/ \E i \in PayrollIds, u \in PayUsers, up \in BOOLEAN : processPayroll(i, u, up)
  \/ \E i \in PayrollIds, u \in PayUsers, d \in {NoNum, PayDay}, up \in BOOLEAN :
       markPayrollAsPaid(i, u, d, up)

PayrollSpec == PayrollInit /\ [][PayrollNext]_vars

PayrollRaceInit ==
  /\ leaves = <<>>
  /\ lres = NoResult
  /\ payrolls = <<>>
  /\ pres = NoPayrollResult
  /\ attendance = WorkedDay
  /\ ares = NoResult
  /\ clock = 9 * MsPerHour
  /\ calls = [c \in CallIds |-> IdlePayrollCall]
  /\ auth = initialState(NoNum)

(* the updates that move a record to another pay period *)
PeriodUpdates == {d \in PayrollUpdates : d.payPeriodEnd # NoNum}

PayrollRaceNext ==
  \/ \E c \in CallIds, d \in PayrollInputs, up \in BOOLEAN : CreatePayrollRead(c, d, up)
  \/ \E c \in CallIds, e \in PayEmployees, s \in PayStarts, t \in PayEnds, up \in BOOLEAN :
       GeneratePayrollRead(c, e, s, t, up)
  \/ \E c \in CallIds : CreatePayrollWrite(c)
  \/ \E c \in CallIds : CreatePayrollReturn(c)
  \/ \E i \in PayrollIds, d \in PeriodUpdates, u \in PayUsers, up \in BOOLEAN :
       updatePayroll(i, d, u, up)

PayrollRaceSpec == PayrollRaceInit /\ [][PayrollRaceNext]_vars

(* Payroll generation over the attendance of three days: day 0 (absent, 7 *)
(* or 10 hours), day 7 (7 or 10 hours) and day 6 (10 hours or absent), or  *)
(* over no attendance at all; called on 10 December 2023 or on 1 January   *)
(* 2024 for a pay period that starts on 10 December 2023.                  *)
WorkedHours(day, hours) ==
  AttendancePreSave(
    [NewAttendance(1, day * MsPerDay, day * MsPerDay + 9 * MsPerHour,
                   "present", "office", FALSE)
       EXCEPT !.checkOut = day * MsPerDay + (9 + hours) * MsPerHour])

AbsentDay(day) == NewAttendance(1, day * MsPerDay, NoNum, "absent", NoStr, FALSE)

GenerateStores ==
  {<<>>} \cup
  {(1 :> a) @@ (2 :> b) @@ (3 :> c) :
     a \in {AbsentDay(0), WorkedHours(0, 7), WorkedHours(0, 10)},
     b \in {WorkedHours(7, 7), WorkedHours(7, 10)},
     c \in {WorkedHours(6, 10), AbsentDay(6)}}

GenerateInit ==
  /\ leaves = <<>>
  /\ lres = NoResult
  /\ payrolls = <<>>
  /\ pres = NoPayrollResult
  /\ attendance \in GenerateStores
  /\ ares = NoResult
  /\ clock \in {9 * MsPerHour, FirstDayOfYear(2024) * MsPerDay + 9 * MsPerHour}
  /\ calls = <<>>
  /\ auth = initialState(NoNum)

GenerateNext ==
  \E e \in PayEmployees, s \in PayStarts, t \in PayEnds, up \in BOOLEAN :
    generatePayroll(e, s, t, up)

GenerateSpec == GenerateInit /\ [][GenerateNext]_vars

(* The operations that ask the directory whether the caller is            *)
(* HR-privileged, on one leave request and one payroll record: the request *)
(* is filed for day 0 and then approved or cancelled, the payroll is       *)
(* generated for the first pay period and then given a bonus, processed    *)
(* and marked paid.                                                        *)
PrivilegedLeaveInputs == {d \in StatusInputs : d.employeeId = 1 /\ d.status = "pending"}

PrivilegedLeaveUpdates == {d \in StatusUpdates : d.status \in {"approved", "cancelled"}}

PrivilegedPayrollUpdates == {d \in PayrollUpdates : d.bonuses # NoNum}

PrivilegedNext ==
  \/ \E e \in LeaveEmployees, d \in PrivilegedLeaveInputs, up \in BOOLEAN :
       createLeaveRequest(e, d, up)
  \/ \E i \in LeaveIds, d \in PrivilegedLeaveUpdates, u \in Users, up \in BOOLEAN :
       updateLeaveRequest(i, d, u, up)
  \/ \E e \in PayEmployees, s \in PayStarts, up \in BOOLEAN :
       generatePayroll(e, s, 6 * MsPerDay, up)
  \/ \E i \in PayrollIds, d \in PrivilegedPayrollUpdates, u \in PayUsers, up \in BOOLEAN :
       updatePayroll(i, d, u, up)
  \/ \E i \in PayrollIds, u \in PayUsers, up \in BOOLEAN : processPayroll(i, u, up)
  \/ \E i \in PayrollIds, u \in PayUsers, up \in BOOLEAN :
       markPayrollAsPaid(i, u, NoNum, up)

PrivilegedSpec == PayrollInit /\ [][PrivilegedNext]_vars

(***************************************************************************)
(* Two createLeaveRequest calls in flight.  A call validates the employee  *)
(* and runs the overlap query (CreateLeaveRead), and later saves           *)
(* (CreateLeaveWrite); the await between the two lets the other call run.  *)
(* The leave collection has no unique index.                               *)
(***************************************************************************)
IdleLeaveCall ==
  [pc |-> "idle", employeeId |-> 0, data |-> <<>>, early |-> FALSE, out |-> "none"]

(* createLeaveRequest up to the throw of the overlap error; early records  *)
(* that no other call has finished yet                                     *)
CreateLeaveRead(c, employeeId, leaveData, up) ==
  LET out == IF ~up THEN "invalidEmployee400"
             ELSE IF Overlapping(leaves, employeeId, leaveData.startDate, leaveData.endDate)
             THEN "overlap400"
             ELSE "none"
      early == \A o \in CallIds \ {c} : calls[o].pc # "done"
  IN /\ calls[c].pc = "idle"
     /\ calls' = [calls EXCEPT ![c] =
          [pc |-> IF out = "none" THEN "read" ELSE "done", employeeId |-> employeeId,
           data |-> leaveData, early |-> early, out |-> out]]
     /\ UNCHANGED <<leaves, lres, payrolls, pres, attendance, ares, clock, auth>>

(* new LeaveRequest({...leaveData, employeeId, startDate, endDate}) and    *)
(* save()                                                                  *)
CreateLeaveWrite(c) ==
  LET call == calls[c]
  IN /\ call.pc = "read"
     /\ DOMAIN leaves # LeaveIds
     /\ leaves' = leaves @@ (FreeLeaveId :>
           LeavePreSave([employeeId |-> call.employeeId,
                         leaveType |-> call.data.leaveType,
                         startDate |-> call.data.startDate,
                         endDate |-> call.data.endDate,
                         status |-> call.data.status,
                         approverId |-> call.data.approverId,
                         daysRequested |-> 0], TRUE))
     /\ calls' = [calls EXCEPT ![c].pc = "done", ![c].out = "ok"]
     /\ UNCHANGED <<lres, payrolls, pres, attendance, ares, clock, auth>>

LeaveRaceInit ==
  /\ leaves = <<>>
  /\ lres = NoResult
  /\ payrolls = <<>>
  /\ pres = NoPayrollResult
  /\ attendance = <<>>
  /\ ares = NoResult
  /\ clock = 9 * MsPerHour
  /\ calls = [c \in CallIds |-> IdleLeaveCall]
  /\ auth = initialState(NoNum)

LeaveRaceNext ==
  \/ \E c \in CallIds, e \in OverlapEmployees, d \in OverlapInputs, up \in BOOLEAN :
       CreateLeaveRead(c, e, d, up)
  \/ \E c \in CallIds : CreateLeaveWrite(c)

LeaveRaceSpec == LeaveRaceInit /\ [][LeaveRaceNext]_vars

(***************************************************************************)
(* updatePayroll calls in flight beside processPayroll and                 *)
(* markPayrollAsPaid.  A call loads the record and passes its guards       *)
(* (UpdatePayrollRead), and later assigns the update to the loaded         *)
(* document and saves it (UpdatePayrollWrite); the awaits in between let   *)
(* the other operations run.                                               *)
(***************************************************************************)
IdleUpdateCall == [pc |-> "idle", id |-> 0, data |-> <<>>, snap |-> <<>>, out |-> "none"]

(* updatePayroll up to the throw of 'Cannot update paid payroll records' *)
UpdatePayrollRead(c, payrollId, updateData, userId, up) ==
  LET out == IF payrollId \notin DOMAIN payrolls THEN "null"
             ELSE IF ~checkHRPermission(userId, up) THEN "notHR403"
             ELSE IF PaidLocked(payrolls[payrollId]) THEN "paid400"
             ELSE "none"
  IN /\ calls[c].pc = "idle"
     /\ calls' = [calls EXCEPT ![c] =
          [pc |-> IF out = "none" THEN "read" ELSE "done", id |-> payrollId,
           data |-> updateData,
           snap |-> IF out = "none" THEN payrolls[payrollId] ELSE <<>>,
           out |-> out]]
     /\ UNCHANGED <<leaves, lres, payrolls, pres, attendance, ares, clock, auth>>

(* Object.assign(payroll, updateData) on the loaded document and save():   *)
(* the paths that differ from the loaded values are written.  The updates  *)
(* of this specification leave the pay period alone, and records are       *)
(* never deleted.                                                          *)
UpdatePayrollWrite(c) ==
  LET call == calls[c]
      assigned == PayrollPreSave(AssignPayroll(call.snap, call.data))
  IN /\ call.pc = "read"
     /\ payrolls' = [payrolls EXCEPT ![call.id] = SaveModified(@, call.snap, assigned)]
     /\ calls' = [calls EXCEPT ![c].pc = "done", ![c].out = "ok"]
     /\ UNCHANGED <<leaves, lres, pres, attendance, ares, clock, auth>>

UpdateRaceInit ==
  /\ leaves = <<>>
  /\ lres = NoResult
  /\ payrolls = <<>>
  /\ pres = NoPayrollResult
  /\ attendance = WorkedDay
  /\ ares = NoResult
  /\ clock = 9 * MsPerHour
  /\ calls = [c \in CallIds |-> IdleUpdateCall]
  /\ auth = initialState(NoNum)

(* the updates that leave the pay period alone *)
FieldUpdates == {d \in PayrollUpdates : d.payPeriodEnd = NoNum}

UpdateRaceNext ==
  \/ \E e \in PayEmployees, s \in PayStarts, up \in BOOLEAN :
       generatePayroll(e, s, 6 * MsPerDay, up)
  \/ \E i \in PayrollIds, u \in PayUsers : \E up \in Lookups(u) : processPayroll(i, u, up)
  \/ \E i \in PayrollIds, u \in PayUsers, d \in {NoNum, PayDay} :
       \E up \in Lookups(u) : markPayrollAsPaid(i, u, d, up)
  \/ \E c \in CallIds, i \in PayrollIds, d \in FieldUpdates, u \in PayUsers :
       \E up \in Lookups(u) : UpdatePayrollRead(c, i, d, u, up)
  \/ \E c \in CallIds : UpdatePayrollWrite(c)

UpdateRaceSpec == UpdateRaceInit /\ [][UpdateRaceNext]_vars

(***************************************************************************)
(* The HR-privilege test over the whole directory: with the directory      *)
(* answering, every employee in it tries to approve a filed leave request  *)
(* and to update, process and mark paid a generated payroll.               *)
(***************************************************************************)
DirectoryUsers == 1..6

ApproveUpdates == {d \in StatusUpdates : d.status = "approved"}

DirectoryNext ==
  \/ \E e \in LeaveEmployees, d \in PrivilegedLeaveInputs : createLeaveRequest(e, d, TRUE)
  \/ \E i \in LeaveIds, d \in ApproveUpdates, u \in DirectoryUsers :
       updateLeaveRequest(i, d, u, TRUE)
  \/ \E e \in PayEmployees, s \in PayStarts : generatePayroll(e, s, 6 * MsPerDay, TRUE)
  \/ \E i \in PayrollIds, d \in PrivilegedPayrollUpdates, u \in DirectoryUsers :
       updatePayroll(i, d, u, TRUE)
  \/ \E i \in PayrollIds, u \in DirectoryUsers : processPayroll(i, u, TRUE)
  \/ \E i \in PayrollIds, u \in DirectoryUsers : markPayrollAsPaid(i, u, NoNum, TRUE)

DirectorySpec == PayrollInit /\ [][DirectoryNext]_vars

(***************************************************************************)
(* Attendance summaries and reports                                        *)
(***************************************************************************)
AttStatuses == {"present", "absent", "late", "half-day", "holiday"}

NoSummary ==
  [totalDays |-> 0, presentDays |-> 0, absentDays |-> 0, lateDays |-> 0, totalHours |-> 0]

SummaryStep_M(summary, record) ==
  [totalDays |-> summary.totalDays + 1,
   presentDays |-> summary.presentDays + (IF record.status = "present" THEN 1 ELSE 0),
   absentDays |-> summary.absentDays + (IF record.status = "absent" THEN 1 ELSE 0),
   lateDays |-> summary.lateDays + (IF record.status = "late" THEN 1 ELSE 0),
   totalHours |-> summary.totalHours +
                    (IF record.hoursWorked # NoNum /\ record.hoursWorked # 0
                     THEN record.hoursWorked ELSE 0)]

(* the callback of the reduce in calculateAttendanceSummary; hoursWorked   *)
(* is added when it is truthy                                              *)
SummaryStep(summary, record) ==
  [totalDays |-> summary.totalDays + 1,
   presentDays |-> summary.presentDays + (IF record.status \in {"present", "late"} THEN 1 ELSE 0),
   absentDays |-> summary.absentDays + (IF record.status = "absent" THEN 1 ELSE 0),
   lateDays |-> summary.lateDays + (IF record.status = "late" THEN 1 ELSE 0),
   totalHours |-> summary.totalHours +
                    (IF record.hoursWorked # NoNum /\ record.hoursWorked # 0
                     THEN record.hoursWorked ELSE 0)]

(* calculateAttendanceSummary over the documents ids of store *)
RECURSIVE calculateAttendanceSummary(_, _)
calculateAttendanceSummary(store, ids) ==
  IF ids = {} THEN NoSummary
  ELSE LET i == CHOOSE x \in ids : TRUE
       IN SummaryStep(calculateAttendanceSummary(store, ids \ {i}), store[i])

(* Attendance.find({ date: { $gte, $lte } }) with the optional employee    *)
(* filter; employeeIds = {} stands for no filter                           *)
FindInRange(store, startDate, endDate, employeeIds) ==
  {i \in DOMAIN store :
     /\ store[i].date >= startDate
     /\ store[i].date <= endDate
     /\ (employeeIds = {} \/ store[i].employeeId \in employeeIds)}

(* getAttendanceByEmployee with both dates given: the count and the        *)
(* summary of the employee's records in the range                          *)
getAttendanceByEmployee(employeeId, startDate, endDate) ==
  LET found == FindInRange(attendance, startDate, endDate, {employeeId})
  IN /\ ares' = [op |-> "byEmployee",
                 args |-> [employeeIds |-> {employeeId}, startDate |-> startDate,
                           endDate |-> endDate],
                 out |-> [total |-> Cardinality(found),
                          summary |-> calculateAttendanceSummary(attendance, found)]]
     /\ UNCHANGED <<leaves, lres, payrolls, pres, attendance, clock, calls, auth>>

RECURSIVE SumRates(_, _)
SumRates(stats, es) ==
  IF es = {} THEN Rat(0, 1)
  ELSE LET e == CHOOSE x \in es : TRUE
       IN RAdd(stats[e].attendanceRate, SumRates(stats, es \ {e}))

(* (summary.presentDays / workingDays) * 100 *)
AttendanceRate(presentDays, workingDays) == Rat(presentDays * 100, workingDays)

getAttendanceReport(startDate, endDate, employeeIds) ==
  LET attendanceRecords == FindInRange(attendance, startDate, endDate, employeeIds)
      employees == {attendance[i].employeeId : i \in attendanceRecords}
      workingDays == DiffDays(endDate, startDate) + 1
      employeeStats ==
        [e \in employees |->
           LET summary == calculateAttendanceSummary(attendance,
                            {i \in attendanceRecords : attendance[i].employeeId = e})
           IN [presentDays |-> summary.presentDays, absentDays |-> summary.absentDays,
               lateDays |-> summary.lateDays, totalHours |-> summary.totalHours,
               attendanceRate |-> AttendanceRate(summary.presentDays, workingDays)]]
      averageAttendance ==
        IF employees # {}
        THEN RMul(SumRates(employeeStats, employees), Rat(1, Cardinality(employees)))
        ELSE Rat(0, 1)
  IN /\ ares' = [op |-> "report",
                 args |-> [employeeIds |-> employeeIds, startDate |-> startDate,
                           endDate |-> endDate],
                 out |-> [summary |-> [totalEmployees |-> Cardinality(employees),
                                       averageAttendance |-> averageAttendance,
                                       totalWorkingDays |-> workingDays],
                          employeeStats |-> employeeStats]]
     /\ UNCHANGED <<leaves, lres, payrolls, pres, attendance, clock, calls, auth>>

(* The records the reports are taken over: employee 1 has a record of day  *)
(* 0, dated 00:00 or moved to 23:30 by updateAttendance, and a record of   *)
(* day 1; employee 2 has a record of day 1.  A present day has 8 hours, a  *)
(* late day 7, a half day 4, an absence or holiday none.                   *)
StatusHours(status) ==
  CASE status = "present" -> 8 [] status = "late" -> 7 [] status = "half-day" -> 4
    [] OTHER -> 0

ReportDoc(employeeId, day, date, status) ==
  IF StatusHours(status) = 0
  THEN NewAttendance(employeeId, date, NoNum, status, NoStr, FALSE)
  ELSE AttendancePreSave(
         [NewAttendance(employeeId, date, day * MsPerDay + 9 * MsPerHour,
                        status, "office", FALSE)
            EXCEPT !.checkOut = day * MsPerDay + (9 + StatusHours(status)) * MsPerHour])

ReportStores ==
  {<<>>} \cup
  {(1 :> ReportDoc(1, 0, d1, s1)) @@ (2 :> ReportDoc(1, 1, MsPerDay, s2))
     @@ (3 :> ReportDoc(2, 1, MsPerDay, s3)) :
     d1 \in {0, 23 * MsPerHour + 1800000}, s1 \in AttStatuses,
     s2 \in {"present", "late", "absent"}, s3 \in {"present", "holiday"}}

(* the ranges asked for: day 0, days 0 to 1, and day 0 23:00 to day 1      *)
(* 01:00                                                                   *)
ReportRanges ==
  {<<0, 0>>, <<0, MsPerDay>>, <<23 * MsPerHour, MsPerDay + MsPerHour>>}

ReportInit ==
  /\ leaves = <<>>
  /\ lres = NoResult
  /\ payrolls = <<>>
  /\ pres = NoPayrollResult
  /\ attendance \in ReportStores
  /\ ares = NoResult
  /\ clock = 9 * MsPerHour
  /\ calls = <<>>
  /\ auth = initialState(NoNum)

ReportNext ==
  \/ \E i \in DOMAIN attendance, r \in ReportRanges :
       getAttendanceByEmployee(attendance[i].employeeId, r[1], r[2])
  \/ \E r \in ReportRanges, es \in {{}, {1}} : getAttendanceReport(r[1], r[2], es)

ReportSpec == ReportInit /\ [][ReportNext]_vars

(* an attendance collection AttendanceSpec reaches: the employee marked   *)
(* absent for day 0                                                        *)
AbsentToday == 1 :> NewAttendance(1, 0, NoNum, "absent", NoStr, FALSE)

RaceInit ==
  /\ leaves = <<>>
  /\ lres = NoResult
  /\ payrolls = <<>>
  /\ pres = NoPayrollResult
  /\ attendance \in {<<>>, AbsentToday}
  /\ ares = NoResult
  /\ clock = 9 * MsPerHour
  /\ calls = [c \in CallIds |-> IdleCall]
  /\ auth = initialState(NoNum)

RaceNext ==
  \/ \E c \in CallIds, e \in AttEmployees : CheckInRead(c, e)
  \/ \E c \in CallIds : CheckInWrite(c)
  \/ Tick

RaceSpec == RaceInit /\ [][RaceNext]_vars

(* WorkedDay and AbsentToday are states of the attendance service *)
ReachesWorkedDay == attendance # WorkedDay

ReachesAbsentToday == attendance # AbsentToday

(***************************************************************************)
(* Properties                                                              *)
(***************************************************************************)

(* C1: no employee has two distinct pending/approved leave requests with   *)
(* overlapping [startDate, endDate] ranges                                 *)
NoOverlappingLeaves ==
  \A a \in DOMAIN leaves, b \in DOMAIN leaves :
    (/\ a # b
     /\ leaves[a].employeeId = leaves[b].employeeId
     /\ leaves[a].status \in {"pending", "approved"}
     /\ leaves[b].status \in {"pending", "approved"})
    => ~(leaves[a].startDate <= leaves[b].endDate /\ leaves[a].endDate >= leaves[b].startDate)

(* C2: a payroll status changes only draft -> processed or processed ->    *)
(* paid, and a record made by generatePayroll starts as draft              *)
PayrollStatusMovesForward ==
  [][/\ \A i \in DOMAIN payrolls :
          (payrolls'[i].status # payrolls[i].status) =>
            (<<payrolls[i].status, payrolls'[i].status>>
               \in {<<"draft", "processed">>, <<"processed", "paid">>})
     /\ (pres'.op = "generate" /\ pres'.out = "ok") =>
          (\A i \in DOMAIN payrolls' \ DOMAIN payrolls : payrolls'[i].status = "draft")
    ]_vars

PayrollErrors == {"notHR403", "paid400", "notDraft400", "notProcessed400"}

(* the step is a call of updatePayroll, processPayroll or                  *)
(* markPayrollAsPaid on record i by user u: every operation records its    *)
(* call in pres                                                            *)
HRCallOn(i, u) ==
  pres'.op \in {"update", "process", "markPaid"} /\ pres'.id = i /\ pres'.user = u

(* C3: once a payroll record is paid, no step changes any of its fields,   *)
(* and every updatePayroll, processPayroll and markPayrollAsPaid call on   *)
(* it ends in an error                                                     *)
PaidIsImmutable ==
  [][\A i \in DOMAIN payrolls :
       (payrolls[i].status = "paid") =>
         /\ payrolls'[i] = payrolls[i]
         /\ \A u \in PayUsers :
              HRCallOn(i, u) => (pres'.out \in PayrollErrors /\ payrolls' = payrolls)
    ]_vars

PaidUpdateRefused ==
  /\ pres.op = "update" /\ pres.out = "paid400"
  /\ \E i \in DOMAIN payrolls : payrolls[i].status = "paid" /\ payrolls[i].paymentDate # NoNum

(* C4: updatePayroll, processPayroll and markPayrollAsPaid on an existing  *)
(* record by a user who is not HR-privileged end in the permission error   *)
(* and leave the collection unchanged, whatever the record's status        *)
NonHRIsRefused ==
  [][\A i \in DOMAIN payrolls, u \in PayUsers :
       (HRCallOn(i, u) /\ ~IsHRPosition(Position(u))) =>
         (pres'.out = "notHR403" /\ payrolls' = payrolls)
    ]_vars

NonHRMarkPaidRefused ==
  /\ pres.user = 2 /\ pres.out = "notHR403" /\ pres.op = "markPaid"
  /\ \E i \in DOMAIN payrolls : payrolls[i].status = "processed"

(* the documents of employee e whose date falls on the day of instant t *)
RecordsOfDay(e, t) ==
  {i \in DOMAIN attendance :
     attendance[i].employeeId = e /\ StartOfDay(attendance[i].date) = StartOfDay(t)}

(* C5: at most one attendance record per employee and day *)
OneAttendancePerDay ==
  \A a \in DOMAIN attendance, b \in DOMAIN attendance :
    (a # b /\ attendance[a].employeeId = attendance[b].employeeId)
      => StartOfDay(attendance[a].date) # StartOfDay(attendance[b].date)

(* C6: when two checkIn calls of one employee both read before either     *)
(* writes, and both get past the already-checked-in guard, one record for  *)
(* the day exists afterwards, one call succeeds and the other ends in the  *)
(* unique-index error                                                      *)
ConcurrentCheckInOneWinner ==
  (/\ \A c \in CallIds : calls[c].pc = "done" /\ calls[c].early
                         /\ calls[c].out # "alreadyCheckedIn400"
   /\ calls[1].employeeId = calls[2].employeeId
   /\ calls[1].today = calls[2].today)
  => /\ Cardinality(RecordsOfDay(calls[1].employeeId, calls[1].today)) = 1
     /\ \E c \in CallIds : /\ calls[c].out = "ok"
                           /\ \A o \in CallIds \ {c} : calls[o].out = "duplicateKey"

(* C7: checkIn of an employee who has a record of today with checkIn set   *)
(* ends in the conflict error and changes nothing; with no record of       *)
(* today it succeeds                                                       *)
CheckInRefusedWhenCheckedIn ==
  [][\A e \in AttEmployees :
       checkIn(e, "office", TRUE) =>
         /\ (\E i \in RecordsOfDay(e, clock) : attendance[i].checkIn # NoNum)
              => (ares'.out = "alreadyCheckedIn400" /\ attendance' = attendance)
         /\ (RecordsOfDay(e, clock) = {}) => (ares'.out = "ok")
    ]_vars

(* C8: checkOut succeeds only on a record of today that has checkIn and    *)
(* no checkOut, and then sets that record's checkOut (and the derived      *)
(* hoursWorked) and nothing else; with no record of today, with no         *)
(* checkIn, or with checkOut already set it ends in an error and changes   *)
(* nothing                                                                 *)
CheckOutGuards ==
  [][\A e \in AttEmployees :
       checkOut(e) =>
         LET todays == RecordsOfDay(e, clock)
         IN /\ (ares'.out = "ok") =>
                 \E i \in todays :
                   /\ attendance[i].checkIn # NoNum
                   /\ attendance[i].checkOut = NoNum
                   /\ attendance' = [attendance EXCEPT ![i] =
                        [@ EXCEPT !.checkOut = clock,
                                  !.hoursWorked = attendance'[i].hoursWorked]]
            /\ (\/ todays = {}
                \/ \A i \in todays : attendance[i].checkIn = NoNum
                \/ \A i \in todays : attendance[i].checkOut # NoNum)
                 => (ares'.out \in {"noRecord400", "notCheckedIn400", "alreadyCheckedOut400"})
            /\ (ares'.out # "ok") => (attendance' = attendance)
    ]_vars

SecondCheckOutRefused ==
  /\ ares = [op |-> "checkOut", out |-> "alreadyCheckedOut400"]
  /\ \E i \in DOMAIN attendance : attendance[i].checkOut = clock

(* C9: a successful checkIn stores checkIn = now, date = the start of the  *)
(* day of now, and status late when now is strictly after 09:00 of that    *)
(* day, present otherwise: 09:00:00 gives present, 09:15 gives late        *)
CheckInMarksLate ==
  [][\A e \in AttEmployees :
       (checkIn(e, "office", TRUE) /\ ares'.out = "ok") =>
         \E i \in DOMAIN attendance' :
           /\ attendance'[i].employeeId = e
           /\ attendance'[i].checkIn = clock
           /\ attendance'[i].date = clock - (clock % MsPerDay)
           /\ attendance'[i].status =
                IF clock - attendance'[i].date > 9 * MsPerHour THEN "late" ELSE "present"
           /\ (clock % MsPerDay = 9 * MsPerHour) => (attendance'[i].status = "present")
           /\ (clock % MsPerDay = 9 * MsPerHour + 900000) => (attendance'[i].status = "late")
    ]_vars

CheckedInAtNineSharp ==
  /\ ares = [op |-> "checkIn", out |-> "ok"]
  /\ \E i \in DOMAIN attendance :
       attendance[i].checkIn = 9 * MsPerHour /\ attendance[i].status = "present"

(* C10: a record with both checkIn and checkOut has hoursWorked equal to   *)
(* (checkOut - checkIn) / 3600000 rounded to the nearest hundredth         *)
HoursWorkedMatchesElapsed ==
  \A i \in DOMAIN attendance :
    (attendance[i].checkIn # NoNum /\ attendance[i].checkOut # NoNum) =>
      /\ attendance[i].hoursWorked # NoNum
      /\ 2 * Abs(attendance[i].hoursWorked * (MsPerHour \div 100)
                   - (attendance[i].checkOut - attendance[i].checkIn)) <= MsPerHour \div 100

HoursAfterUpdate ==
  /\ ares = [op |-> "update", out |-> "ok"]
  /\ \E i \in DOMAIN attendance :
       /\ attendance[i].checkIn = 8 * MsPerHour
       /\ attendance[i].checkOut = 17 * MsPerHour + 1825000
       /\ attendance[i].hoursWorked = 951

(* C11: a request stored by createLeaveRequest is pending right after the  *)
(* call and belongs to the calling employee, whatever status, approverId   *)
(* or employeeId the input carries                                         *)
CreatedPendingForCaller ==
  [][\A e \in LeaveEmployees, d \in LeaveInputs, up \in BOOLEAN :
       (createLeaveRequest(e, d, up) /\ lres'.out = "ok") =>
         \A i \in DOMAIN leaves' \ DOMAIN leaves :
           leaves'[i].status = "pending" /\ leaves'[i].employeeId = e
    ]_vars

(* the updates that approve or reject *)
DecisionUpdates == {d \in StatusUpdates : d.status \in {"approved", "rejected"}}

(* C12: updateLeaveRequest with status approved or rejected succeeds only  *)
(* for an HR-privileged user, and then stores that status with approverId  *)
(* the acting user; for any other user, the owner included, it ends in a   *)
(* permission error and leaves the collection unchanged                    *)
ApproveOnlyByHR ==
  [][(lres'.op = "update") =>
       \A i \in DOMAIN leaves, u \in Users, d \in DecisionUpdates :
         \A up \in Lookups(u) :
           updateLeaveRequest(i, d, u, up) =>
             /\ (lres'.out = "ok") =>
                   /\ u \in HRUsers
                   /\ leaves'[i].status = d.status
                   /\ leaves'[i].approverId = u
             /\ (u \notin HRUsers) =>
                   /\ lres'.out \in {"notOwner403", "notHR403"}
                   /\ leaves' = leaves
    ]_vars

RejectedByHR ==
  /\ lres = [op |-> "update", out |-> "ok"]
  /\ \E i \in DOMAIN leaves : leaves[i].status = "rejected" /\ leaves[i].approverId = 3

(* C13: deleteLeaveRequest removes the request only for its owner and only *)
(* while it is pending; for any other caller or status it ends in the      *)
(* permission error and changes nothing; for an unknown id it reports      *)
(* not-found and changes nothing                                           *)
DeleteOnlyOwnPending ==
  [][(lres'.op = "delete") =>
       \A i \in LeaveIds, u \in Users :
         deleteLeaveRequest(i, u) =>
           IF i \notin DOMAIN leaves
           THEN lres'.out = "false" /\ leaves' = leaves
           ELSE IF leaves[i].employeeId = u /\ leaves[i].status = "pending"
           THEN /\ lres'.out = "true"
                /\ DOMAIN leaves' = DOMAIN leaves \ {i}
                /\ \A j \in DOMAIN leaves' : leaves'[j] = leaves[j]
           ELSE lres'.out = "forbidden403" /\ leaves' = leaves
    ]_vars

DeleteOfApprovedRefused ==
  /\ lres = [op |-> "delete", out |-> "forbidden403"]
  /\ DOMAIN leaves # {}
  /\ \A i \in DOMAIN leaves : leaves[i].status = "approved" /\ leaves[i].approverId = 3

(* C14: createLeaveRequest of employee e for [s, t] stores nothing and     *)
(* fails, with the overlap error once the employee is validated, whenever  *)
(* e has a pending or approved request x with x.startDate <= t and         *)
(* x.endDate >= s; rejected and cancelled requests and the requests of     *)
(* other employees do not block it                                         *)
CreateRefusedOnOverlap ==
  [][(lres'.op = "create") =>
       \A e \in OverlapEmployees, d \in OverlapInputs, up \in BOOLEAN :
         createLeaveRequest(e, d, up) =>
           LET blocked == \E i \in DOMAIN leaves :
                            /\ leaves[i].employeeId = e
                            /\ leaves[i].status \in {"pending", "approved"}
                            /\ leaves[i].startDate <= d.endDate
                            /\ leaves[i].endDate >= d.startDate
           IN /\ blocked => (lres'.out # "ok" /\ leaves' = leaves)
              /\ (blocked /\ up) => (lres'.out = "overlap400")
              /\ (~blocked /\ up) =>
                    (lres'.out = "ok" /\ DOMAIN leaves' # DOMAIN leaves)
    ]_vars

ColleagueDoesNotBlock ==
  /\ lres = [op |-> "create", out |-> "ok"]
  /\ \E i \in DOMAIN leaves, j \in DOMAIN leaves :
       /\ leaves[i].employeeId = 1 /\ leaves[j].employeeId = 2
       /\ leaves[i].status = "pending" /\ leaves[j].status = "approved"
       /\ leaves[i].startDate <= leaves[j].endDate
       /\ leaves[i].endDate >= leaves[j].startDate

(* C15: every stored leave request has daysRequested one more than the     *)
(* least whole number of days that covers |endDate - startDate|, so a      *)
(* request that starts and ends at the same instant counts 1 day and the   *)
(* value is never below 1                                                  *)
DaysRequestedIsInclusive ==
  \A i \in DOMAIN leaves :
    LET diffTime == IF leaves[i].endDate >= leaves[i].startDate
                    THEN leaves[i].endDate - leaves[i].startDate
                    ELSE leaves[i].startDate - leaves[i].endDate
        days == leaves[i].daysRequested - 1
    IN /\ days >= 0
       /\ days * MsPerDay >= diffTime
       /\ (days - 1) * MsPerDay < diffTime
       /\ (leaves[i].startDate = leaves[i].endDate) => (leaves[i].daysRequested = 1)

EndDateMovedToNoon ==
  /\ lres = [op |-> "update", out |-> "ok"]
  /\ \E i \in DOMAIN leaves :
       /\ leaves[i].startDate = 0
       /\ leaves[i].endDate = MsPerDay + 12 * MsPerHour
       /\ leaves[i].daysRequested = 3

(* C16: getLeaveBalance(e) returns 21, 10 and 5 minus the daysRequested of *)
(* e's approved annual, sick and personal requests that lie within the     *)
(* current calendar year; other requests do not count, and with no         *)
(* approved request the result is exactly 21, 10 and 5                     *)
BalanceIsAllocationMinusApproved ==
  (lres.op = "balance") =>
    LET e == lres.out.employeeId
        counted(type) ==
          {i \in DOMAIN leaves :
             /\ leaves[i].employeeId = e
             /\ leaves[i].status = "approved"
             /\ leaves[i].leaveType = type
             /\ YearOf(leaves[i].startDate) = YearOf(clock)
             /\ YearOf(leaves[i].endDate) = YearOf(clock)}
    IN /\ lres.out.annual = 21 - SumDays(leaves, counted("annual"))
       /\ lres.out.sick = 10 - SumDays(leaves, counted("sick"))
       /\ lres.out.personal = 5 - SumDays(leaves, counted("personal"))
       /\ (\A i \in DOMAIN leaves :
             leaves[i].employeeId = e => leaves[i].status # "approved")
            => (lres.out.annual = 21 /\ lres.out.sick = 10 /\ lres.out.personal = 5)

(* C17: in every stored payroll record grossPay = baseSalary +             *)
(* overtimeHours * overtimeRate + bonuses, totalDeductions = tax +         *)
(* insurance + retirement + other, and netPay = grossPay - totalDeductions *)
PayAmountsAreDerived ==
  \A i \in DOMAIN payrolls :
    LET p == payrolls[i]
    IN /\ p.grossPay = RAdd(p.baseSalary, RAdd(RMul(p.overtimeHours, p.overtimeRate), p.bonuses))
       /\ p.totalDeductions =
            RAdd(p.deductions.tax,
                 RAdd(p.deductions.insurance, RAdd(p.deductions.retirement, p.deductions.other)))
       /\ RAdd(p.netPay, p.totalDeductions) = p.grossPay

BonusAddedToGenerated ==
  /\ pres.op = "update" /\ pres.out = "ok"
  /\ \E i \in DOMAIN payrolls :
       /\ payrolls[i].bonuses = Rat(500, 1)
       /\ payrolls[i].overtimeHours = Rat(51, 100)
       /\ payrolls[i].status = "draft"

(* the payroll records of the given employee and pay period *)
RecordsOfPeriod(data) ==
  {i \in DOMAIN payrolls :
     /\ payrolls[i].employeeId = data.employeeId
     /\ payrolls[i].payPeriodStart = data.payPeriodStart
     /\ payrolls[i].payPeriodEnd = data.payPeriodEnd}

Generated(i) ==
  /\ pres'.op = "generate" /\ pres'.out = "ok"
  /\ i \in DOMAIN payrolls' \ DOMAIN payrolls

(* C19: generatePayroll stores baseSalary = annualSalary / daysInYear *    *)
(* daysInPeriod, with daysInPeriod the inclusive day count of the pay      *)
(* period and daysInYear 366 when the year of the pay period is a leap     *)
(* year and 365 otherwise; 75000 a year over 15 days of a 365-day year is  *)
(* 3082.19 to the cent                                                     *)
BaseSalaryIsProRated ==
  [][\A i \in PayrollIds :
       Generated(i) =>
         LET p == payrolls'[i]
             daysInPeriod == DayOf(p.payPeriodEnd) - DayOf(p.payPeriodStart) + 1
             daysInYear == IF IsLeapYear(YearOf(p.payPeriodStart)) THEN 366 ELSE 365
             example == calculateBaseSalary(75000, 0, 14 * MsPerDay, FALSE)
         IN /\ p.baseSalary.n * daysInYear = Salary(p.employeeId) * daysInPeriod * p.baseSalary.d
            /\ 308219 * example.d <= 100 * example.n
            /\ 100 * example.n < 308220 * example.d
    ]_vars

(* the employee's attendance records dated within the pay period of p *)
RecordsInPeriod(p) ==
  {a \in DOMAIN attendance :
     /\ attendance[a].employeeId = p.employeeId
     /\ attendance[a].date >= p.payPeriodStart
     /\ attendance[a].date <= p.payPeriodEnd}

RECURSIVE HoursOver(_)
HoursOver(ids) ==
  IF ids = {} THEN 0
  ELSE LET a == CHOOSE x \in ids : TRUE
       IN (IF attendance[a].hoursWorked = NoNum THEN 0 ELSE attendance[a].hoursWorked)
          + HoursOver(ids \ {a})

(* overtime of p when workingDays counts the records in days *)
OvertimeFrom(p, days) ==
  LET totalHours == HoursOver(RecordsInPeriod(p))
      regularHours == Min(totalHours, Cardinality(days) * 800)
      rate == p.overtimeRate
  IN /\ p.overtimeHours.n * 100 = Max(0, totalHours - regularHours) * p.overtimeHours.d
     /\ p.overtimeHours.n >= 0 /\ p.overtimeHours.d > 0
     /\ rate.n * 2080 * 2 = Salary(p.employeeId) * 3 * rate.d

(* C20 as stated: generatePayroll stores overtimeHours = max(0, totalHours *)
(* - regularHours) with regularHours = min(totalHours, 8 * workingDays),   *)
(* totalHours the sum of hoursWorked over the employee's attendance        *)
(* records dated within the pay period and workingDays the number of those *)
(* records; overtimeRate = annualSalary / 2080 * 1.5; never negative       *)
OvertimeOverAllRecords ==
  [][\A i \in PayrollIds :
       Generated(i) => OvertimeFrom(payrolls'[i], RecordsInPeriod(payrolls'[i]))
    ]_vars

(* C20 amended: as above, with workingDays the number of the records       *)
(* within the pay period that have hoursWorked (a record of an absence or  *)
(* of a day without check-out is not counted)                              *)
OvertimeOverWorkedRecords ==
  [][\A i \in PayrollIds :
       Generated(i) =>
         OvertimeFrom(payrolls'[i],
                      {a \in RecordsInPeriod(payrolls'[i]) :
                         attendance[a].hoursWorked # NoNum})
    ]_vars

(* a payroll generated with overtime over a period that holds an absence   *)
(* and a record outside the period                                         *)
OvertimeBesideAbsence ==
  /\ pres.op = "generate" /\ pres.out = "ok"
  /\ \E i \in DOMAIN payrolls :
       /\ payrolls[i].overtimeHours.n > 0
       /\ \E a \in RecordsInPeriod(payrolls[i]) : attendance[a].hoursWorked = NoNum
       /\ \E a \in DOMAIN attendance : a \notin RecordsInPeriod(payrolls[i])

(* C21: a record generatePayroll has just stored has tax = 22%, insurance  *)
(* = 5% and retirement = 6% of baseSalary + overtimeHours * overtimeRate,  *)
(* other = 0 and bonuses = 0, so that totalDeductions is 33% of that       *)
(* amount, and its netPay is not negative                                  *)
GeneratedDeductionsAreFlatRates ==
  [][\A i \in PayrollIds :
       Generated(i) =>
         LET p == payrolls'[i]
             amount == RAdd(p.baseSalary, RMul(p.overtimeHours, p.overtimeRate))
         IN /\ p.deductions.tax = RMul(amount, Rat(22, 100))
            /\ p.deductions.insurance = RMul(amount, Rat(5, 100))
            /\ p.deductions.retirement = RMul(amount, Rat(6, 100))
            /\ p.deductions.other = Rat(0, 1)
            /\ p.bonuses = Rat(0, 1)
            /\ p.totalDeductions = RMul(amount, Rat(33, 100))
            /\ p.netPay.n >= 0 /\ p.netPay.d > 0
    ]_vars

(* a generated record with overtime pay, deductions and net pay *)
GeneratedWithOvertimePay ==
  /\ pres.op = "generate" /\ pres.out = "ok"
  /\ \E i \in DOMAIN payrolls :
       /\ payrolls[i].overtimeHours.n > 0
       /\ payrolls[i].deductions.tax.n > 0
       /\ payrolls[i].totalDeductions.n > 0
       /\ payrolls[i].netPay.n > 0

PermissionErrors == {"notOwner403", "notHR403"}

(* C22: when the directory lookup that decides HR privilege fails,         *)
(* updateLeaveRequest, updatePayroll, processPayroll and markPayrollAsPaid *)
(* end in a failure that is not the permission error, and a user who was   *)
(* looked up and is not HR-privileged gets the permission error; in both   *)
(* cases the record is unchanged                                           *)
LookupFailureIsDistinct ==
  [][/\ (lres'.op = "update") =>
          \A i \in DOMAIN leaves, d \in PrivilegedLeaveUpdates, u \in Users :
            (leaves[i].employeeId # u \/ d.status = "approved") =>
              /\ updateLeaveRequest(i, d, u, FALSE) =>
                   (lres'.out \notin PermissionErrors \cup {"ok"} /\ leaves' = leaves)
              /\ (updateLeaveRequest(i, d, u, TRUE) /\ u \notin HRUsers) =>
                   (lres'.out \in PermissionErrors /\ leaves' = leaves)
     /\ (pres'.op \in {"update", "process", "markPaid"}) =>
          \A i \in DOMAIN payrolls, u \in PayUsers :
            /\ (\/ \E d \in PrivilegedPayrollUpdates : updatePayroll(i, d, u, FALSE)
                \/ processPayroll(i, u, FALSE)
                \/ markPayrollAsPaid(i, u, NoNum, FALSE))
                 => (pres'.out \notin PermissionErrors \cup {"ok"} /\ payrolls' = payrolls)
            /\ (/\ u \notin HRUsers
                /\ \/ \E d \in PrivilegedPayrollUpdates : updatePayroll(i, d, u, TRUE)
                   \/ processPayroll(i, u, TRUE)
                   \/ markPayrollAsPaid(i, u, NoNum, TRUE))
                 => (pres'.out \in PermissionErrors /\ payrolls' = payrolls)
    ]_vars

(* the documents a report call has read: those of the asked employees      *)
(* dated within the asked range                                            *)
Asked ==
  {i \in DOMAIN attendance :
     /\ attendance[i].date >= ares.args.startDate
     /\ attendance[i].date <= ares.args.endDate
     /\ (ares.args.employeeIds = {} \/ attendance[i].employeeId \in ares.args.employeeIds)}

WithStatus(ids, statuses) == {i \in ids : attendance[i].status \in statuses}

(* C23: the summary of a set of records has totalDays = the number of      *)
(* records, presentDays = the number that are present or late, lateDays =  *)
(* the number that are late, absentDays = the number that are absent and   *)
(* totalHours = the sum of their hoursWorked; half-day and holiday records *)
(* count towards totalDays only, so presentDays + absentDays <= totalDays  *)
(* and lateDays <= presentDays                                             *)
SummaryCountsByStatus ==
  (ares.op = "byEmployee") =>
    LET summary == ares.out.summary
    IN /\ summary.totalDays = Cardinality(Asked)
       /\ ares.out.total = Cardinality(Asked)
       /\ summary.presentDays = Cardinality(WithStatus(Asked, {"present", "late"}))
       /\ summary.lateDays = Cardinality(WithStatus(Asked, {"late"}))
       /\ summary.absentDays = Cardinality(WithStatus(Asked, {"absent"}))
       /\ summary.totalHours = HoursOver(Asked)
       /\ summary.totalDays - summary.presentDays - summary.absentDays
            = Cardinality(WithStatus(Asked, {"half-day", "holiday"}))
       /\ summary.presentDays + summary.absentDays <= summary.totalDays
       /\ summary.lateDays <= summary.presentDays

(* a summary over a half day and a late day *)
SummaryOfHalfDayAndLate ==
  /\ ares.op = "byEmployee"
  /\ WithStatus(Asked, {"half-day"}) # {}
  /\ WithStatus(Asked, {"late"}) # {}
  /\ ares.out.summary.totalDays = 2
  /\ ares.out.summary.presentDays = 1
  /\ ares.out.summary.totalHours = 1100

(* the rates of a report: each employee with a record in the range has     *)
(* presentDays / workingDays * 100, workingDays being the whole days from  *)
(* startDate to endDate plus one, and the average is their mean            *)
ReportRatesAreShares ==
  LET asked == {attendance[i].employeeId : i \in Asked}
      stats == ares.out.employeeStats
      workingDays == (ares.args.endDate - ares.args.startDate) \div MsPerDay + 1
      present(e) == Cardinality({i \in WithStatus(Asked, {"present", "late"}) :
                                   attendance[i].employeeId = e})
      average == ares.out.summary.averageAttendance
  IN /\ DOMAIN stats = asked
     /\ \A e \in asked :
          stats[e].attendanceRate.n * workingDays = 100 * present(e) * stats[e].attendanceRate.d
     /\ average.n * workingDays * Cardinality(asked)
          = 100 * Cardinality(WithStatus(Asked, {"present", "late"})) * average.d
     /\ (asked = {}) => (average = Rat(0, 1))

(* C24: getAttendanceReport gives each employee with a record in           *)
(* [startDate, endDate] attendanceRate = presentDays / workingDays * 100,  *)
(* workingDays being the inclusive number of days of the range, and        *)
(* averageAttendance = the mean of those rates (0 with no such employee);  *)
(* with at most one record per employee per day every rate is in [0, 100]  *)
ReportRatesWithinHundred ==
  (ares.op = "report") =>
    /\ ReportRatesAreShares
    /\ OneAttendancePerDay =>
         \A e \in DOMAIN ares.out.employeeStats :
           LET rate == ares.out.employeeStats[e].attendanceRate
           IN rate.n >= 0 /\ rate.n <= 100 * rate.d

(* C25: when two createLeaveRequest calls of one employee for overlapping  *)
(* ranges both run the overlap query before either saves, at most one of   *)
(* the two requests is stored and the other call ends in the conflict      *)
(* error                                                                   *)
ConcurrentCreateOneWinner ==
  (/\ \A c \in CallIds : calls[c].pc = "done" /\ calls[c].early
                         /\ calls[c].out # "invalidEmployee400"
   /\ calls[1].employeeId = calls[2].employeeId
   /\ calls[1].data.startDate <= calls[2].data.endDate
   /\ calls[1].data.endDate >= calls[2].data.startDate)
  => /\ \E c \in CallIds : calls[c].out = "overlap400"
     /\ Cardinality({i \in DOMAIN leaves :
                       /\ leaves[i].employeeId = calls[1].employeeId
                       /\ leaves[i].status \in {"pending", "approved"}}) <= 1

(* C26: when updatePayroll has read a processed record and                 *)
(* markPayrollAsPaid on that record completes before updatePayroll writes, *)
(* the write does not modify the paid record: it keeps status paid and the *)
(* field values it had when it was marked paid                             *)
LateUpdateSparesPaid ==
  [][\A c \in CallIds :
       (/\ calls[c].pc = "read" /\ calls'[c].pc = "done"
        /\ calls[c].snap.status = "processed"
        /\ payrolls[calls[c].id].status = "paid")
       => payrolls'[calls[c].id] = payrolls[calls[c].id]
    ]_vars

(* C27: updateLeaveRequest by a user who is neither the owner of the       *)
(* request nor HR-privileged ends in the permission error and changes no   *)
(* field of the request; for an unknown request id it reports not-found    *)
(* and changes nothing                                                     *)
StrangerUpdateRefused ==
  [][(lres'.op = "update") =>
       \A i \in LeaveIds, d \in StatusUpdates, u \in Users :
         \A up \in Lookups(u) :
           updateLeaveRequest(i, d, u, up) =>
             IF i \notin DOMAIN leaves
             THEN lres'.out = "null" /\ leaves' = leaves
             ELSE (leaves[i].employeeId # u /\ u \notin HRUsers) =>
                    (lres'.out \in PermissionErrors /\ leaves' = leaves)
    ]_vars

(* a colleague's update of a pending request has been refused *)
ColleagueUpdateRefused ==
  /\ lres = [op |-> "update", out |-> "notOwner403"]
  /\ \E i \in DOMAIN leaves : leaves[i].status = "pending" /\ leaves[i].employeeId = 1
  /\ \A i \in DOMAIN leaves : leaves[i].approverId = NoNum

(* the position of u, lower-cased, contains 'hr' or is 'admin' *)
HasHROrIsAdmin(u) ==
  LET lower == ToLowerCase(Position(u))
  IN \/ \E k \in 1..(Len(lower) - 1) : lower[k] = "h" /\ lower[k + 1] = "r"
     \/ (Len(lower) = 5 /\ lower[1] = "a" /\ lower[2] = "d" /\ lower[3] = "m"
         /\ lower[4] = "i" /\ lower[5] = "n")

(* C28: the leave and payroll services treat a user as HR-privileged       *)
(* exactly when the user's position, lower-cased, contains 'hr' or equals  *)
(* 'admin': 'HR Intern' (user 4) is privileged, 'Administrator' (user 2)   *)
(* and 'Engineer' (user 1) are not                                         *)
PrivilegeFollowsPosition ==
  [][/\ (pres'.op \in {"update", "process", "markPaid"} /\ pres'.id \in DOMAIN payrolls
         /\ pres' # pres) =>
          /\ (pres'.out # "notHR403") <=> HasHROrIsAdmin(pres'.user)
          /\ (pres'.user = 4) => (pres'.out # "notHR403")
          /\ (pres'.user \in {1, 2}) => (pres'.out = "notHR403")
     /\ (lres'.op = "update") =>
          \A i \in DOMAIN leaves, d \in ApproveUpdates, u \in DirectoryUsers :
            updateLeaveRequest(i, d, u, TRUE) =>
              /\ (lres'.out = "ok") <=> HasHROrIsAdmin(u)
              /\ (u = 4) => (lres'.out = "ok")
              /\ (u \in {1, 2}) => (lres'.out \in PermissionErrors)
    ]_vars

(* the HR intern has approved a leave request and processed a payroll *)
InternActsAsHR ==
  /\ lres = [op |-> "update", out |-> "ok"]
  /\ \E i \in DOMAIN leaves : leaves[i].status = "approved" /\ leaves[i].approverId = 4
  /\ pres.op = "process" /\ pres.user = 4 /\ pres.out = "ok"

(* C29: in every state reached by checkIn, checkOut, markAbsent and        *)
(* updateAttendance, a record that has checkOut also has checkIn, with     *)
(* checkIn <= checkOut, and its hoursWorked is not negative                *)
CheckOutFollowsCheckIn ==
  \A i \in DOMAIN attendance :
    (attendance[i].checkOut # NoNum) =>
      /\ attendance[i].checkIn # NoNum
      /\ attendance[i].checkIn <= attendance[i].checkOut
      /\ (attendance[i].hoursWorked # NoNum) => (attendance[i].hoursWorked >= 0)

(* C30: in every state reached from the initial state by AUTH_START,       *)
(* AUTH_SUCCESS, AUTH_FAILURE, LOGOUT and UPDATE_USER actions,             *)
(* isAuthenticated implies that user and token are not null; and right     *)
(* after AUTH_FAILURE or LOGOUT isAuthenticated is false and user and      *)
(* token are null                                                          *)
AuthenticatedHasUserAndToken ==
  /\ [](auth.isAuthenticated => (auth.user # NoNum /\ auth.token # NoNum))
  /\ [][\A action \in AuthActions :
          (action.type \in {"AUTH_FAILURE", "LOGOUT"} /\ dispatch(action)) =>
            (~auth'.isAuthenticated /\ auth'.user = NoNum /\ auth'.token = NoNum)
       ]_vars

(* signed in as user 2 with token 3, a sign-in under way *)
SignedInAgain ==
  /\ auth.isAuthenticated /\ auth.isLoading
  /\ auth.user = 2 /\ auth.token = 3

====
